---------------------------- MODULE Spec2Model ----------------------------
(***************************************************************************)
(* A model of the CAP-NZ ETL task (src/task.ts): the alert-to-feature      *)
(* pipeline of Task.control and the pure helpers it calls                  *)
(* (parsePolygonString, parseCircleString, calculatePolygonCentroid,       *)
(* parseXML, parseFeed, getEventIcon), one iteration of the alert loop     *)
(* taken alone, and the attempts and timers of fetchWithRetry.             *)
(*                                                                         *)
(* Text is modelled after tokenisation.  A numeric text is a record        *)
(* [k, v]: k = "empty" (the empty string), "nan" (no numeric prefix, e.g.  *)
(* "abc"), "num" (a decimal literal of value v) or "junk" (a decimal       *)
(* literal of value v followed by other characters, e.g. "12abc").         *)
(* A coordinate pair is the sequence of the texts between its commas, a    *)
(* polygon string the sequence of its whitespace-separated pairs.          *)
(***************************************************************************)
EXTENDS Integers, Sequences, FiniteSets, TLC

VARIABLES
    pc,            \* position of Task.control: "start", "loop", "submitted", "aborted"
    feedOutcome,   \* how fetchWithRetry of the feed ended: "pending", "ok", "error"
    alertUrls,     \* the URLs parseFeed returned (1..n, already de-duplicated)
    idx,           \* number of URLs whose loop iteration has finished
    features,      \* fc.features
    submitted,     \* the collections handed to this.submit, in call order
    history,       \* per finished iteration: the document served and what it added
    polygonStr,    \* argument of parsePolygonString
    polygonRes,    \* its outcome ("pending" before the call)
    circleStr,     \* argument of parseCircleString
    circleRes,     \* its outcome
    xmlDoc,        \* argument of parseXML
    xmlRes,        \* its outcome
    centroidRing,  \* the ring passed to calculatePolygonCentroid
    centroidRes,   \* its result (<<>> before the call)
    feedText,      \* argument of parseFeed
    feedLinks,     \* its result
    iconArgs,      \* arguments of getEventIcon: <<eventType, category>>
    iconRes,       \* its result ("" before the call)
    assembleDoc,   \* the document served to one iteration of the alert loop
    assembleRes,   \* what that iteration did ("pending" before it)
    retries,       \* fetchWithRetry's argument retries, a fraction
    attempt,       \* its loop variable
    fetchPc,       \* its position: idle, fetching, backoff, returned, thrown
    timers,        \* the attempts whose timeout timer is armed
    aborted,       \* the attempts whose controller has aborted
    fetchLog,      \* how each attempt so far ended, in order
    fetchOutcome   \* what the call gave its caller (pending before)

vars == <<pc, feedOutcome, alertUrls, idx, features, submitted, history,
          polygonStr, polygonRes, circleStr, circleRes, xmlDoc, xmlRes,
          centroidRing, centroidRes, feedText, feedLinks, iconArgs, iconRes,
          assembleDoc, assembleRes,
          retries, attempt, fetchPc, timers, aborted, fetchLog, fetchOutcome>>

ctlVars  == <<pc, feedOutcome, alertUrls, idx, features, submitted, history>>
polyVars == <<polygonStr, polygonRes>>
circVars == <<circleStr, circleRes>>
xmlVars  == <<xmlDoc, xmlRes>>
centVars == <<centroidRing, centroidRes>>
feedVars == <<feedText, feedLinks>>
iconVars == <<iconArgs, iconRes>>
alertVars == <<assembleDoc, assembleRes>>
fetchVars == <<retries, attempt, fetchPc, timers, aborted, fetchLog, fetchOutcome>>

\* The variables of the helpers' own specifications, which Task.control
\* leaves alone.
helperVars ==
    <<polyVars, circVars, xmlVars, centVars, feedVars, iconVars, alertVars,
      fetchVars>>

-----------------------------------------------------------------------------
(* Bounds of the model *)

MaxPairs == 4          \* longest polygon string, in pairs
MaxUrls == 2           \* longest list of alert URLs

-----------------------------------------------------------------------------
(* Numeric texts and parseFloat *)

Empty    == [k |-> "empty", v |-> 0]
NaNText  == [k |-> "nan", v |-> 0]
Num(x)   == [k |-> "num", v |-> x]
Junk(x)  == [k |-> "junk", v |-> x]

\* A text that is a number and nothing else.
IsNumeric(t) == t.k = "num"

\* !s?.trim(): the text is empty.
IsBlank(t) == t.k = "empty"

\* parseFloat: the value of the longest numeric prefix, NaN when there is none.
parseFloat(t) ==
    IF t.k \in {"num", "junk"} THEN [nan |-> FALSE, v |-> t.v]
    ELSE [nan |-> TRUE, v |-> 0]

isNaN(f) == f.nan

LatMin == 0 - 90
LatMax == 90
LonMin == 0 - 180
LonMax == 180

LatInRange(lat) == lat >= LatMin /\ lat <= LatMax
LonInRange(lon) == lon >= LonMin /\ lon <= LonMax


-----------------------------------------------------------------------------
(* Task.parsePolygonString *)

MinPoints == 3

\* The coordinate pairs the specifications draw polygon strings from:
\* "lat,lon" pairs inside the bounds and on them, pairs outside each bound,
\* and pairs that are malformed in each way the parser distinguishes.
Pair(lat, lon) == <<Num(lat), Num(lon)>>

ValidPairs ==
    {Pair(0, 0), Pair(1, 0), Pair(LatMax, LonMax), Pair(LatMin, LonMin)}

BadPairs ==
    {Pair(LatMax + 1, 0), Pair(LatMin - 1, 0),       \* latitude out of range
     Pair(0, LonMax + 1), Pair(0, LonMin - 1),       \* longitude out of range
     <<Num(0)>>,                                     \* "0": no comma
     <<Num(0), Num(0), Num(0)>>,                     \* "0,0,0": three parts
     <<Num(0), Empty>>,                              \* "0,": missing component
     <<NaNText, Num(0)>>,                            \* "abc,0": not a number
     <<Junk(1), Num(0)>>}                            \* "1x,0": number, then text

PairTokens == ValidPairs \cup BadPairs

SeqsUpTo(S, n) == UNION {[1..m -> S] : m \in 0..n}

PolygonStrings == SeqsUpTo(PairTokens, MaxPairs)

Pending == [tag |-> "pending", err |-> "", coordinates |-> <<>>]
Thrown(e) == [tag |-> "throw", err |-> e, coordinates |-> <<>>]
Returned(c) == [tag |-> "ok", err |-> "", coordinates |-> c]

\* The checks of the loop body, in the code's order; TRUE when the pair is
\* pushed to invalidPairs.
PairInvalid(pair) ==
    \/ Len(pair) = 1                                   \* !pair.includes(',')
    \/ Len(pair) # 2                                   \* parts.length !== 2
    \/ IsBlank(pair[1]) \/ IsBlank(pair[2])            \* !latStr?.trim() || ...
    \/ isNaN(parseFloat(pair[1])) \/ isNaN(parseFloat(pair[2]))
    \/ ~LatInRange(parseFloat(pair[1]).v)
    \/ ~LonInRange(parseFloat(pair[2]).v)

\* points.push([lon, lat])
PairPoint(pair) == <<parseFloat(pair[2]).v, parseFloat(pair[1]).v>>

InvalidPairs(str) == SelectSeq(str, PairInvalid)

ValidPoints(str) ==
    LET valid == SelectSeq(str, LAMBDA p : ~PairInvalid(p))
    IN  [i \in 1..Len(valid) |-> PairPoint(valid[i])]

\* CloseRing without its test: the first point is always appended.
CloseRing_Always(points) == Append(points, points[1])

\* "Ensure polygon is closed"
CloseRing(points) ==
    IF points[1][1] # points[Len(points)][1] \/ points[1][2] # points[Len(points)][2]
    THEN Append(points, points[1])
    ELSE points

\* points.length < 3
TooFewPoints(points) == Len(points) < MinPoints

parsePolygonString(str) ==
    IF Len(str) = 0 THEN Thrown("Empty polygon string")
    ELSE IF Len(InvalidPairs(str)) > 0 THEN Thrown("Invalid coordinate pairs")
    ELSE IF TooFewPoints(ValidPoints(str)) THEN Thrown("Insufficient valid points")
    ELSE Returned(<<CloseRing(ValidPoints(str))>>)

-----------------------------------------------------------------------------
(* Task.parseCircleString *)

MaxCircleParts == 3    \* most space-separated parts of a circle string

\* A circle string is the sequence of its parts between single spaces (after
\* trim), each part the sequence of its texts between commas.  The empty
\* sequence is the empty string; the part <<Empty>> is the empty part that
\* two adjacent spaces leave.
CoordParts ==
    {Pair(0 - 41, 174), Pair(LatMax, LonMax), Pair(LatMin, LonMin),
     Pair(LatMax + 1, 0), Pair(LatMin - 1, 0),
     Pair(0, LonMax + 1), Pair(0, LonMin - 1),
     <<Num(0)>>, <<Num(0), Empty>>, <<Empty, Num(0)>>,
     <<NaNText, Num(0)>>, <<Num(0), NaNText>>,
     <<Junk(1), Num(0)>>, <<Num(0), Num(0), Num(0)>>}

RadiusParts ==
    {<<Num(50)>>, <<Num(0)>>, <<Num(0 - 1)>>, <<NaNText>>, <<Empty>>, <<Junk(50)>>}

CircleStrings == SeqsUpTo(CoordParts \cup RadiusParts, MaxCircleParts)

NullCircle == [tag |-> "null", center |-> <<>>, radius |-> 0]
PendingCircle == [tag |-> "pending", center |-> <<>>, radius |-> 0]
CircleData(c, r) == [tag |-> "ok", center |-> c, radius |-> r]

\* parseFloat(parts[1]): of a whole part, commas included; the numeric prefix
\* ends at the first comma at the latest.
parseFloatPart(part) ==
    IF Len(part) = 1 THEN parseFloat(part[1])
    ELSE parseFloat([k |-> IF part[1].k = "num" THEN "junk" ELSE part[1].k,
                     v |-> part[1].v])

\* latStr && lonStr, with [latStr, lonStr] = parts[0].split(',')
HasLatLon(part) == Len(part) >= 2 /\ ~IsBlank(part[1]) /\ ~IsBlank(part[2])

\* radius > 0
RadiusOk(radius) == radius > 0

parseCircleString(str) ==
    IF Len(str) = 0 THEN NullCircle                          \* !circleStr
    ELSE IF Len(str) >= 2 /\ HasLatLon(str[1]) THEN
        LET radius == parseFloatPart(str[2])
            lat == parseFloat(str[1][1])
            lon == parseFloat(str[1][2])
        IN  IF /\ ~isNaN(lat) /\ ~isNaN(lon) /\ ~isNaN(radius)
               /\ LatInRange(lat.v) /\ LonInRange(lon.v) /\ RadiusOk(radius.v)
            THEN CircleData(<<lon.v, lat.v>>, radius.v)
            ELSE NullCircle
    ELSE NullCircle

-----------------------------------------------------------------------------------------------------------------------------------------------------
(* Floating-point arithmetic.  A JavaScript number is a binary floating-    *)
(* point value and every operation returns the exact result rounded to the  *)
(* nearest value of the format, ties to the even significand.  The model    *)
(* keeps that rule with a significand of Precision bits (binary64 has 53)   *)
(* and no exponent limit.  A value is kept as a fraction in lowest terms.   *)

Precision == 6         \* bits of the significand

Abs(x) == IF x < 0 THEN 0 - x ELSE x

RECURSIVE GCD(_, _)
GCD(a, b) == IF b = 0 THEN a ELSE GCD(b, a % b)

Frac(n, d) ==
    LET g == GCD(Abs(n), Abs(d))
        sgn == IF d < 0 THEN 0 - 1 ELSE 1
    IN  [n |-> sgn * (n \div g), d |-> sgn * (d \div g)]

Whole(x) == [n |-> x, d |-> 1]

RECURSIVE SumTo(_, _)
SumTo(f, n) == IF n = 0 THEN 0 ELSE f[n] + SumTo(f, n - 1)

RECURSIVE Pow2(_)
Pow2(k) == IF k = 0 THEN 1 ELSE 2 * Pow2(k - 1)

\* num / den (both positive) rounded to an integer, ties to even.
RoundHalfEven(num, den) ==
    LET q == num \div den
        r == num % den
    IN  IF 2 * r > den \/ (2 * r = den /\ q % 2 = 1) THEN q + 1 ELSE q

\* num / den (both positive) with a significand of Precision bits: the
\* quotient is scaled by powers of two into [2^(Precision-1), 2^Precision),
\* rounded there, and scaled back (result times up / down).
SignificandEnd == Pow2(Precision)            \* significands are below it
SignificandStart == Pow2(Precision - 1)      \* and not below this one

RECURSIVE RoundQuotient(_, _, _, _)
RoundQuotient(num, den, up, down) ==
    IF num \div den >= SignificandEnd THEN RoundQuotient(num, 2 * den, 2 * up, down)
    ELSE IF num \div den < SignificandStart THEN RoundQuotient(2 * num, den, up, 2 * down)
    ELSE Frac(RoundHalfEven(num, den) * up, down)

\* The floating-point quotient n / d of two integer-valued numbers: NaN
\* (0/0) and the infinities (1/0, -1/0) when d is zero.
Quotient(n, d) ==
    IF d = 0 THEN [n |-> IF n > 0 THEN 1 ELSE IF n < 0 THEN 0 - 1 ELSE 0, d |-> 0]
    ELSE IF n = 0 THEN Whole(0)
    ELSE LET q == RoundQuotient(Abs(n), Abs(d), 1, 1)
         IN  IF (n < 0) = (d < 0) THEN q ELSE [n |-> 0 - q.n, d |-> q.d]

\* n / d, with each operand evaluated once.
fdiv(n, d) == CHOOSE q \in {Quotient(p[1], p[2]) : p \in {<<n, d>>}} : TRUE

\* The floating-point value of an integer-valued exact result (of a sum, a
\* difference or a product of integer-valued numbers): the integer itself
\* when it fits the significand, and an integer again when it does not.
fl(x) ==
    CHOOSE r \in {IF Abs(v) < SignificandEnd THEN v ELSE Quotient(v, 1).n : v \in {x}} : TRUE

-----------------------------------------------------------------------------
(* Task.calculatePolygonCentroid, on rings with integer coordinates *)

\* const a = x0 * y1 - x1 * y0, for the edge from points[i] to points[i + 1]
EdgeCross(points, i) ==
    fl(fl(points[i][1] * points[i + 1][2]) - fl(points[i + 1][1] * points[i][2]))

\* area after the first k iterations of the loop over the edges (before it
\* is halved): area += a
RECURSIVE AreaSum(_, _)
AreaSum(points, k) ==
    IF k = 0 THEN 0 ELSE fl(AreaSum(points, k - 1) + EdgeCross(points, k))

\* cx (c = 1) and cy (c = 2) after the first k iterations:
\* cx += (x0 + x1) * a, cy += (y0 + y1) * a
RECURSIVE WeightedSum(_, _, _)
WeightedSum(points, k, c) ==
    IF k = 0 THEN 0
    ELSE fl(WeightedSum(points, k - 1, c)
            + fl(fl(points[k][c] + points[k + 1][c]) * EdgeCross(points, k)))

ShoelaceSums(points, k) ==
    [area |-> AreaSum(points, k),
     cx |-> WeightedSum(points, k, 1),
     cy |-> WeightedSum(points, k, 2)]

\* x (c = 1) and y (c = 2) after the first k iterations of the loop over
\* the points: x += point[0], y += point[1]
RECURSIVE CoordSum(_, _, _)
CoordSum(points, k, c) ==
    IF k = 0 THEN 0 ELSE fl(CoordSum(points, k - 1, c) + points[k][c])

\* Math.abs(area) < 1e-10 after area *= 0.5: halving is exact and the sum is
\* an integer, so the test is on the sum being zero.
AreaBelowEpsilon(sum) == sum = 0

\* 6 * area after area *= 0.5: three times the sum, rounded.
SixArea(sum) == fl(3 * sum)

\* The ring's points averaged whatever the area.
calculatePolygonCentroid_VertexMean(coordinates) ==
    LET points == coordinates[1]
        n == Len(points)
    IN  IF n < 3 THEN <<Whole(0), Whole(0)>>
        ELSE <<fdiv(CoordSum(points, n, 1), n), fdiv(CoordSum(points, n, 2), n)>>

\* No fallback for a degenerate ring: cx and cy are divided by 6 * area
\* whatever the area.
calculatePolygonCentroid_NoFallback(coordinates) ==
    LET points == coordinates[1]
        n == Len(points)
    IN  IF n < 3 THEN <<Whole(0), Whole(0)>>
        ELSE <<fdiv(WeightedSum(points, n - 1, 1), SixArea(AreaSum(points, n - 1))),
               fdiv(WeightedSum(points, n - 1, 2), SixArea(AreaSum(points, n - 1)))>>

calculatePolygonCentroid(coordinates) ==
    LET points == coordinates[1]
        n == Len(points)
    IN  IF n < 3 THEN <<Whole(0), Whole(0)>>
        ELSE IF AreaBelowEpsilon(AreaSum(points, n - 1))
        THEN <<fdiv(CoordSum(points, n, 1), n), fdiv(CoordSum(points, n, 2), n)>>
        ELSE <<fdiv(WeightedSum(points, n - 1, 1), SixArea(AreaSum(points, n - 1))),
               fdiv(WeightedSum(points, n - 1, 2), SixArea(AreaSum(points, n - 1)))>>

-----------------------------------------------------------------------------
(* Lookup in a table written as an object literal *)

\* The members every object literal inherits from Object.prototype: a
\* lookup table[key] finds them when the table has no entry of its own.
ObjectPrototypeKeys ==
    {"constructor", "toString", "toLocaleString", "valueOf", "hasOwnProperty",
     "isPrototypeOf", "propertyIsEnumerable", "__proto__", "__defineGetter__",
     "__defineSetter__", "__lookupGetter__", "__lookupSetter__"}

\* The inherited member as it appears in place of a table's string.
InheritedMember(key) == "Object.prototype." \o key

\* table[key] || fallback, for a table written as an object literal whose
\* values are non-empty strings.
LookupOr(table, key, fallback) ==
    IF key \in DOMAIN table THEN table[key]
    ELSE IF key \in ObjectPrototypeKeys THEN InheritedMember(key)
    ELSE fallback

-----
(* Task.getCategoryDescription and Task.getEventDescription: their tables *)

CATEGORY_MAP ==
    "Geo" :> "Geophysical (including landslide)" @@
    "Met" :> "Meteorological (including flood)" @@
    "Safety" :> "General emergency and public safety" @@
    "Security" :> "Law enforcement, military, homeland and local/private security" @@
    "Rescue" :> "Rescue and recovery" @@
    "Fire" :> "Fire suppression and rescue" @@
    "Health" :> "Medical and public health" @@
    "Env" :> "Pollution and other environmental hazards" @@
    "Transport" :> "Public and private transportation" @@
    "Infra" :> "Utility, telecommunication, other non-transport infrastructure" @@
    "CBRNE" :> "Chemical, Biological, Radiological, Nuclear or High-Yield Explosive threat or attack" @@
    "Other" :> "Other events"

EVENT_MAP ==
    "storm" :> "Storm" @@
    "hail" :> "Hail" @@
    "rainfall" :> "Rainfall" @@
    "snowfall" :> "Snowfall" @@
    "thunderstorm" :> "Thunderstorm" @@
    "tornado" :> "Tornado" @@
    "tropCyclone" :> "Tropical Cyclone" @@
    "tropStorm" :> "Tropical Storm" @@
    "winterStorm" :> "Winter Storm" @@
    "weather" :> "Weather" @@
    "temperature" :> "Temperature" @@
    "coldOutbreak" :> "Cold Outbreak" @@
    "heatWave" :> "Heat Wave" @@
    "frost" :> "Frost" @@
    "windChill" :> "Wind Chill" @@
    "wind" :> "Wind" @@
    "avLightning" :> "Airport Lightning Threat" @@
    "avThunder" :> "Airport Thunder Threat" @@
    "fireWeather" :> "Fire Weather" @@
    "flood" :> "Flood" @@
    "flashFlood" :> "Flash Flood" @@
    "highWater" :> "High Water Level" @@
    "stormSurge" :> "Storm Surge" @@
    "riverFlood" :> "River Flood" @@
    "earthquake" :> "Earthquake" @@
    "tsunami" :> "Tsunami" @@
    "landTsunami" :> "Land Threat Tsunami" @@
    "beachTsunami" :> "Beach Threat Tsunami" @@
    "marine" :> "Marine" @@
    "galeWind" :> "Gale Wind" @@
    "hurricFrcWnd" :> "Hurricane Force Wind" @@
    "iceberg" :> "Iceberg" @@
    "largeSurf" :> "Large Coastal Surf" @@
    "largeSwell" :> "Large Swell Waves" @@
    "squall" :> "Squall" @@
    "stormFrcWind" :> "Storm Force Wind" @@
    "strongWind" :> "Strong Wind" @@
    "waterspout" :> "Waterspout" @@
    "snow" :> "Snow"

-----------------------------------------------------------------------------
(* Task.getEventIcon and its tables *)

ICON_PREFIX == "bb4df0a6-ca8d-4ba8-bb9e-3deb97ff015e:"
DEFAULT_ICON == "Incidents/INC.38.NaturalDisaster3.InformationOnly.png"

ICON_MAP ==
    "snow" :> "NaturalHazards/NH.07.Snow.png" @@
    "snowfall" :> "NaturalHazards/NH.07.Snow.png" @@
    "rain" :> "NaturalHazards/NH.05.HeavyRain.png" @@
    "rainfall" :> "NaturalHazards/NH.05.HeavyRain.png" @@
    "wind" :> "NaturalHazards/NH.04.StrongWind.png" @@
    "storm" :> "NaturalHazards/NH.06.ElectricalStorm.png" @@
    "thunderstorm" :> "NaturalHazards/NH.06.ElectricalStorm.png" @@
    "tornado" :> "NaturalHazards/NH.16.Tornado.png" @@
    "tropCyclone" :> "NaturalHazards/NH.09.TropicalCyclone.png" @@
    "tropStorm" :> "NaturalHazards/NH.09.TropicalCyclone.png" @@
    "flood" :> "NaturalHazards/NH.01.Flood.png" @@
    "flashFlood" :> "NaturalHazards/NH.01.Flood.png" @@
    "earthquake" :> "NaturalHazards/NH.24.Earthquake.png" @@
    "tsunami" :> "NaturalHazards/NH.03.Tsunami.png" @@
    "marine" :> "Incidents/INC.24.Marine.png" @@
    "fire" :> "Incidents/INC.35.Fire.png" @@
    "fireWeather" :> "Incidents/INC.37.Fire.Vegetation.png" @@
    "landslide" :> "NaturalHazards/NH.18.Landslide.png" @@
    "stormSurge" :> "NaturalHazards/NH.02.StormSurge.png" @@
    "ice" :> "NaturalHazards/NH.08.Ice.png" @@
    "drought" :> "NaturalHazards/NH.22.Drought.png" @@
    "biosecurity" :> "NaturalHazards/NH.23.Biosecurity.png" @@
    "hail" :> "NaturalHazards/NH.06.ElectricalStorm.png" @@
    "winterStorm" :> "NaturalHazards/NH.07.Snow.png" @@
    "weather" :> "Incidents/INC.38.NaturalDisaster1.Urgent.png" @@
    "temperature" :> "Incidents/INC.38.NaturalDisaster1.Urgent.png" @@
    "coldOutbreak" :> "NaturalHazards/NH.08.Ice.png" @@
    "heatWave" :> "Incidents/INC.38.NaturalDisaster1.Urgent.png" @@
    "frost" :> "NaturalHazards/NH.08.Ice.png" @@
    "windChill" :> "NaturalHazards/NH.08.Ice.png" @@
    "avLightning" :> "NaturalHazards/NH.06.ElectricalStorm.png" @@
    "avThunder" :> "NaturalHazards/NH.06.ElectricalStorm.png" @@
    "highWater" :> "NaturalHazards/NH.01.Flood.png" @@
    "riverFlood" :> "NaturalHazards/NH.01.Flood.png" @@
    "landTsunami" :> "NaturalHazards/NH.03.Tsunami.png" @@
    "beachTsunami" :> "NaturalHazards/NH.03.Tsunami.png" @@
    "galeWind" :> "NaturalHazards/NH.04.StrongWind.png" @@
    "hurricFrcWnd" :> "NaturalHazards/NH.04.StrongWind.png" @@
    "iceberg" :> "Incidents/INC.24.Marine.png" @@
    "largeSurf" :> "Incidents/INC.24.Marine.png" @@
    "largeSwell" :> "Incidents/INC.24.Marine.png" @@
    "squall" :> "NaturalHazards/NH.04.StrongWind.png" @@
    "stormFrcWind" :> "NaturalHazards/NH.04.StrongWind.png" @@
    "strongWind" :> "NaturalHazards/NH.04.StrongWind.png" @@
    "waterspout" :> "NaturalHazards/NH.16.Tornado.png"

getEventIcon(eventType, category) ==
    IF category = "Health" THEN ICON_PREFIX \o "Incidents/INC.60.GHS08.HealthHazard.png"
    ELSE IF category = "Fire" THEN ICON_PREFIX \o "Incidents/INC.35.Fire.png"
    ELSE ICON_PREFIX \o LookupOr(ICON_MAP, eventType, DEFAULT_ICON)

-----------------------------------------------------------------------------
(* CAP documents and Task.parseXML *)

\* A property that is absent (undefined in the source).
Undefined == "undefined"

\* Date strings: new Date(s) is a valid date for all but the last; the
\* third is the instant of the first written in UTC.
GoodDate  == "2025-06-01T10:00:00+12:00"
LaterDate == "2025-06-02T10:00:00+12:00"
UtcDate   == "2025-05-31T22:00:00Z"
BadDate   == "soon"

DateParses(s) == s \in {GoodDate, LaterDate, UtcDate}

\* new Date(s).toISOString(): the instant in UTC with milliseconds; a
\* RangeError for an invalid date.
toISOString(s) ==
    CASE s = GoodDate -> "2025-05-31T22:00:00.000Z"
      [] s = UtcDate -> "2025-05-31T22:00:00.000Z"
      [] s = LaterDate -> "2025-06-01T22:00:00.000Z"
      [] OTHER -> "RangeError: Invalid time value"

\* A text of several lines (description, instruction, and every string built
\* from them) is the sequence of its lines: the text without a line break is
\* one line, the empty string one empty line.
NoText == <<"">>
OneLine(l) == <<l>>

\* area.polygon: absent, one string, or an array of strings.
NoPolygon == [kind |-> "none", strs |-> <<>>]
OnePolygon(str) == [kind |-> "string", strs |-> <<str>>]
PolygonArray(strs) == [kind |-> "array", strs |-> strs]

\* alert.Signature.KeyInfo.X509Data.X509Certificate as the XML parser hands
\* it over: absent; "empty" (the element is there without text: the empty
\* string); "text" (base64 text); "wrapped" (base64 text with line breaks and
\* &#13; in it); "badbase64" (text that is not base64 after cleaning);
\* "nontext" (not a string: the element has attributes or children).
\* For text that decodes, cn and o are what /CN=([^,]+)/ and /O=([^,]+)/ find
\* in the decoded bytes and dates the matches of the timestamp pattern.
NotFound == [found |-> FALSE, body |-> "", space |-> FALSE]
Found(body, space) == [found |-> TRUE, body |-> body, space |-> space]

AbsentCert ==
    [kind |-> "absent", bytes |-> "", cn |-> NotFound, o |-> NotFound, dates |-> <<>>]

Cert(kind, cn, o, dates) ==
    [kind |-> kind, bytes |-> "c1", cn |-> cn, o |-> o, dates |-> dates]

CERT_DEFAULTS ==
    [ISSUER |-> "cap.metservice.com",
     SUBJECT |-> "METEOROLOGICAL SERVICE OF NEW ZEALAND LIMITED",
     VALID_UNTIL |-> "2025-10-23"]

\* let signature = undefined
NoSignature ==
    [present |-> FALSE, issuer |-> "", subject |-> "", validUntil |-> "", fingerprint |-> ""]

Signature(issuer, subject, validUntil, fingerprint) ==
    [present |-> TRUE, issuer |-> issuer, subject |-> subject,
     validUntil |-> validUntil, fingerprint |-> fingerprint]

\* The signature of the catch block.
FallbackSignature ==
    Signature(CERT_DEFAULTS.ISSUER, CERT_DEFAULTS.SUBJECT, CERT_DEFAULTS.VALID_UNTIL,
              "Unknown")

\* if (certSection): the empty string is falsy like undefined.
CertTruthy(cert) == cert.kind \notin {"absent", "empty"}

\* certSection.replace(...) throws a TypeError for a value that is not a
\* string; atob throws for text that is not base64.
CertThrows(cert) == cert.kind \in {"nontext", "badbase64"}

\* cnMatch[1].trim(), oMatch[1].trim()
TrimMatch(m) == m.body

\* The SHA-256 of the decoded bytes, in hex pairs joined by ':'.
Fingerprint(cert) == "SHA256:" \o cert.bytes

\* The issuer when CN= is not found.
DefaultIssuer == "MetService"

\* The first timestamp (the start of the validity) taken for the second.
ValidUntil_FirstStamp(dates) ==
    IF Len(dates) >= 2
    THEN "20" \o dates[1].yy \o "-" \o dates[1].mm \o "-" \o dates[1].dd
    ELSE CERT_DEFAULTS.VALID_UNTIL

\* dateMatches && dateMatches.length >= 2 ? dateMatches[1] : null, rendered
\* `20${YY}-${MM}-${DD}`
ValidUntil(dates) ==
    IF Len(dates) >= 2
    THEN "20" \o dates[2].yy \o "-" \o dates[2].mm \o "-" \o dates[2].dd
    ELSE CERT_DEFAULTS.VALID_UNTIL

\* The signature the try block builds from the decoded certificate.
DecodedSignature(cert) ==
    Signature(IF cert.cn.found THEN TrimMatch(cert.cn) ELSE DefaultIssuer,
              IF cert.o.found THEN TrimMatch(cert.o) ELSE CERT_DEFAULTS.SUBJECT,
              ValidUntil(cert.dates),
              Fingerprint(cert))

\* The signature block: signature stays undefined for a falsy certSection,
\* the catch block answers an error with the fallback record.
ExtractSignature(cert) ==
    IF ~CertTruthy(cert) THEN NoSignature
    ELSE IF CertThrows(cert) THEN FallbackSignature
    ELSE DecodedSignature(cert)

\* info.parameter as the XML parser hands it over: absent, "empty" (an
\* element without content: the empty string), one object, or an array.
NoParameter == [kind |-> "none", params |-> <<>>]
EmptyParameter == [kind |-> "empty", params |-> <<>>]
OneParameter(p) == [kind |-> "object", params |-> <<p>>]
ParameterArray(ps) == [kind |-> "array", params |-> ps]

Param(valueName, value) == [valueName |-> valueName, value |-> value]

\* let colorCode = null
NullColour == "null"

colorMap ==
    "Red" :> "#FF0000" @@ "Orange" :> "#FF8918" @@ "Yellow" :> "#FFFF00" @@
    "Green" :> "#00FF00" @@ "Blue" :> "#0000FF"

\* params.find(p => p.valueName === name): the index of the first such
\* entry, 0 when there is none.
FindParam(params, name) ==
    LET at == {i \in 1..Len(params) : params[i].valueName = name}
    IN  IF at = {} THEN 0 ELSE CHOOSE i \in at : \A j \in at : i <= j

\* ColourCode looked up before ColourCodeHex.
colorCode_NamePreferred(parameter) ==
    LET params == parameter.params
        hex == FindParam(params, "ColourCodeHex")
        name == FindParam(params, "ColourCode")
    IN  IF parameter.kind \in {"none", "empty"} THEN NullColour
        ELSE IF name > 0 THEN LookupOr(colorMap, params[name].value, NullColour)
        ELSE IF hex > 0 THEN params[hex].value
        ELSE NullColour

\* Lines 400-420.
colorCode(parameter) ==
    LET params == parameter.params
        hex == FindParam(params, "ColourCodeHex")
        name == FindParam(params, "ColourCode")
    IN  IF parameter.kind \in {"none", "empty"} THEN NullColour     \* if (info.parameter)
        ELSE IF hex > 0 THEN params[hex].value
        ELSE IF name > 0 THEN LookupOr(colorMap, params[name].value, NullColour)
        ELSE NullColour

\* What one alert URL serves: whether the fetch succeeds (after its retries),
\* whether the XML parser accepts the text, which elements are present, and
\* the texts of the elements ("" when the element is absent or empty).
BaseDoc ==
    [fetch |-> "ok", wellFormed |-> TRUE, hasAlert |-> TRUE, hasInfo |-> TRUE,
     identifier |-> "a", sender |-> "s", sent |-> GoodDate,
     onset |-> "", expires |-> "", category |-> "Met", event |-> "rain",
     polygon |-> NoPolygon, circle |-> <<>>, cert |-> AbsentCert,
     parameter |-> NoParameter,
     description |-> OneLine("Heavy rain"), instruction |-> NoText,
     urgency |-> "", severity |-> "", certainty |-> "", responseType |-> "",
     web |-> ""]

NoAlert(tag) ==
    [tag |-> tag, identifier |-> "", sender |-> "", sent |-> "",
     onset |-> "", expires |-> "", category |-> "", event |-> "",
     polygon |-> NoPolygon, circle |-> <<>>, signature |-> NoSignature,
     colorCode |-> NullColour,
     description |-> NoText, instruction |-> NoText,
     urgency |-> "", severity |-> "", certainty |-> "", responseType |-> "",
     web |-> ""]

\* The body of parseXML's try block.
parseXMLBody(doc) ==
    IF ~doc.wellFormed THEN NoAlert("throw")            \* parser.parse throws
    ELSE IF ~doc.hasAlert THEN NoAlert("null")          \* if (!alert) return null
    ELSE IF ~doc.hasInfo THEN NoAlert("null")           \* if (!info) return null
    ELSE IF doc.identifier = "" \/ doc.sender = "" \/ doc.sent = ""
         THEN NoAlert("null")
    ELSE [tag |-> "alert", identifier |-> doc.identifier, sender |-> doc.sender,
          sent |-> doc.sent, onset |-> doc.onset, expires |-> doc.expires,
          category |-> doc.category, event |-> doc.event,
          polygon |-> doc.polygon, circle |-> doc.circle,
          signature |-> ExtractSignature(doc.cert),
          colorCode |-> colorCode(doc.parameter),
          description |-> doc.description, instruction |-> doc.instruction,
          urgency |-> doc.urgency, severity |-> doc.severity,
          certainty |-> doc.certainty, responseType |-> doc.responseType,
          web |-> doc.web]

\* parseXML without its try/catch: what the parser throws reaches the caller.
parseXML_NoCatch(doc) == parseXMLBody(doc)

\* try { ... } catch (error) { return null }
parseXML(doc) ==
    LET r == parseXMLBody(doc)
    IN  IF r.tag = "throw" THEN NoAlert("null") ELSE r

-----------------------------------------------------------------------------
(* Task.parseFeed.  The feed text is the sequence of its elements; a link    *)
(* element is written <link>text</link> (RSS) or <link ... href="text">      *)
(* (Atom).  A text is a record: its content without the surrounding white    *)
(* space, whether that content includes "/cap/" and "alert", the number of   *)
(* white-space characters around it, and its length with them.               *)

MaxElements == 3       \* most elements of a feed
MatchLimit == 1000     \* {1,1000}: the longest text either pattern matches

CapText     == [name |-> "https://x/cap/1", cap |-> TRUE, alert |-> FALSE,
                space |-> 0, chars |-> 15]
AlertText   == [name |-> "https://x/alert/2", cap |-> FALSE, alert |-> TRUE,
                space |-> 0, chars |-> 17]
OtherText   == [name |-> "https://x/other", cap |-> FALSE, alert |-> FALSE,
                space |-> 0, chars |-> 15]
LongCapText == [name |-> "https://x/cap/3?q=...", cap |-> TRUE, alert |-> FALSE,
                space |-> 0, chars |-> MatchLimit + 1]
EmptyText   == [name |-> "", cap |-> FALSE, alert |-> FALSE, space |-> 0, chars |-> 0]

\* The text with a line break before and after it.
Padded(t) == [t EXCEPT !.space = 2, !.chars = t.chars + 2]

FeedTexts == {CapText, Padded(CapText), AlertText, OtherText, LongCapText, EmptyText}

Rss(t)  == [form |-> "rss", text |-> t]
AtomLink(t) == [form |-> "atom", text |-> t]
OtherElement == [form |-> "other", text |-> EmptyText]      \* <title>, <entry>, ...

FeedElements == {Rss(t) : t \in FeedTexts} \cup {AtomLink(t) : t \in FeedTexts}
                    \cup {OtherElement}

FeedTextsUpTo(n) == SeqsUpTo(FeedElements, n)

\* match[1].trim()
Trim(t) == [t EXCEPT !.space = 0, !.chars = t.chars - t.space]

\* link.includes('/cap/') || link.includes('alert')
isCapAlertLink(link) == link.cap \/ link.alert

\* /<link>([^<]{1,1000})<\/link>/g
RssMatch(e) == e.form = "rss" /\ e.text.chars >= 1 /\ e.text.chars <= MatchLimit

\* /<link[^>]+href=["']([^"']{1,1000})["'][^>]*>/g
AtomMatch(e) == e.form = "atom" /\ e.text.chars >= 1 /\ e.text.chars <= MatchLimit

\* The matches of one of the two expressions in the feed.
LinkMatch(form, e) == IF form = "rss" THEN RssMatch(e) ELSE AtomMatch(e)

\* One of the two loops: the links it pushes, in the order of the matches.
ScanLinks(feed, form) ==
    LET Matches(e) == LinkMatch(form, e)
        matches == SelectSeq(feed, Matches)
        trimmed == [i \in 1..Len(matches) |-> Trim(matches[i].text)]
    IN  SelectSeq(trimmed, isCapAlertLink)

\* The links returned as they were pushed.
Unique_KeepAll(links) == links

\* [...new Set(links)]: each link once, at the place of its first occurrence.
RECURSIVE Unique(_)
Unique(links) ==
    IF links = <<>> THEN <<>>
    ELSE LET front == Unique(SubSeq(links, 1, Len(links) - 1))
             last == links[Len(links)]
         IN  IF \E i \in 1..Len(front) : front[i] = last THEN front
             ELSE Append(front, last)

parseFeed(feed) == Unique(ScanLinks(feed, "rss") \o ScanLinks(feed, "atom"))

\* The value of feedLinks before the call.
PendingLinks ==
    <<[name |-> "pending", cap |-> FALSE, alert |-> FALSE, space |-> 0, chars |-> 0]>>

-----------------------------------------------------------------------------
(* Task.control: the features of one alert *)

FallbackPoint == <<174, 0 - 41>>       \* "Approximate center of New Zealand"
MinRingLength == 4

\* A Point's coordinates are kept as a pair of fractions [lon, lat], a
\* Polygon's as its list of rings.
NoGeometry == [type |-> "none", coordinates |-> <<>>]          \* geometry = null
PointGeometry(c) == [type |-> "Point", coordinates |-> <<Whole(c[1]), Whole(c[2])>>]
CentroidGeometry(c) == [type |-> "Point", coordinates |-> c]
PolygonGeometry(c) == [type |-> "Polygon", coordinates |-> c]

\* new Date(s).toISOString() throws a RangeError for an invalid date; it is
\* evaluated for sent, and for onset and expires when they are not empty.
DateThrows(alert) ==
    \/ ~DateParses(alert.sent)
    \/ alert.onset # "" /\ ~DateParses(alert.onset)
    \/ alert.expires # "" /\ ~DateParses(alert.expires)

\* polygons.length > 1 ? `${identifier}-${i}` : identifier   (i counts from 0)
polygonId(alert, polygons, i) ==
    IF Len(polygons) > 1 THEN alert.identifier \o "-" \o ToString(i - 1)
    ELSE alert.identifier

\* The center feature given the id of its polygon.
centerId_NoSuffix(pid) == pid

centerId(pid) == pid \o "-center"

\* time: new Date(alert.sent).toISOString()
TimeProperty(alert) == toISOString(alert.sent)

\* start taken from sent whatever the onset.
StartProperty_SentOnly(alert) == toISOString(alert.sent)

\* start: alert.info.onset ? new Date(alert.info.onset).toISOString()
\*                         : new Date(alert.sent).toISOString()
StartProperty(alert) ==
    IF alert.onset # "" THEN toISOString(alert.onset) ELSE toISOString(alert.sent)

\* stale: alert.info.expires ? new Date(alert.info.expires).toISOString() : undefined
StaleProperty(alert) ==
    IF alert.expires # "" THEN toISOString(alert.expires) ELSE Undefined

\* CATEGORY_MAP[categoryCode] || categoryCode || 'Unknown'
getCategoryDescription(categoryCode) ==
    LookupOr(CATEGORY_MAP, categoryCode,
             IF categoryCode # "" THEN categoryCode ELSE "Unknown")

\* EVENT_MAP[eventCode] || eventCode || 'Unknown'
getEventDescription(eventCode) ==
    LookupOr(EVENT_MAP, eventCode, IF eventCode # "" THEN eventCode ELSE "Unknown")

\* new Date(s).toLocaleString('en-NZ', { timeZone: 'Pacific/Auckland' }): the
\* instant on the clock of Auckland; "Invalid Date" for an invalid date.
toLocaleString(s) ==
    CASE s = GoodDate -> "1/06/2025, 10:00:00 am"
      [] s = UtcDate -> "1/06/2025, 10:00:00 am"
      [] s = LaterDate -> "2/06/2025, 10:00:00 am"
      [] OTHER -> "Invalid Date"

\* label + text: the label is put before the first line of the text.
Labelled(label, text) == <<label \o Head(text)>> \o Tail(text)

\* value || 'Unknown'
OrUnknown(value) == IF value = "" THEN "Unknown" ELSE value

\* A line of white space only.
BlankLines == {"", " "}

\* r.trim() is the empty string: the entry has white space only.
TrimsToEmpty(entry) == \A i \in 1..Len(entry) : entry[i] \in BlankLines

\* The entries of the remarks array, each a text.
RemarkEntries(alert) ==
    <<Labelled("Description: ", alert.description),
      Labelled("Instruction: ", alert.instruction),
      OneLine("Category: " \o getCategoryDescription(alert.category)),
      OneLine("Event: " \o getEventDescription(alert.event)),
      OneLine("Urgency: " \o OrUnknown(alert.urgency)),
      OneLine("Severity: " \o OrUnknown(alert.severity)),
      OneLine("Certainty: " \o OrUnknown(alert.certainty)),
      OneLine("Response: " \o OrUnknown(alert.responseType))>>
    \o (IF alert.onset # ""
        THEN <<OneLine("Onset: " \o toLocaleString(alert.onset) \o " NZT")>>
        ELSE <<>>)
    \o (IF alert.expires # ""
        THEN <<OneLine("Expires: " \o toLocaleString(alert.expires) \o " NZT")>>
        ELSE <<>>)
    \o (IF alert.signature.present
        THEN <<NoText,
               OneLine("Digital Signature"),
               OneLine("Name: " \o OrUnknown(alert.signature.subject)),
               OneLine("Issuer: " \o OrUnknown(alert.signature.issuer)),
               OneLine("Valid Until: " \o OrUnknown(alert.signature.validUntil)),
               OneLine("Fingerprint: " \o OrUnknown(alert.signature.fingerprint))>>
        ELSE <<>>)

\* .filter(r => r.trim())
KeepEntry(entry) == ~TrimsToEmpty(entry)

\* .join('\n'): the lines of the entries one after the other.
RECURSIVE Join(_)
Join(entries) ==
    IF entries = <<>> THEN <<>> ELSE Head(entries) \o Join(Tail(entries))

\* remarks: [...].filter(r => r.trim()).join('\n')
Remarks(alert) == Join(SelectSeq(RemarkEntries(alert), KeepEntry))

\* The links of the center feature with the uid of the polygon feature.
CenterLinkUid_OfPolygon(pid) == pid

\* uid: `${polygonId}-center`
CenterLinkUid(pid) == pid \o "-center"

\* ...(alert.info.web ? { links: [{ uid, ..., url: alert.info.web, ... }] } : {}):
\* the list of links, empty when the feature has no links property.
Links(alert, uid) ==
    IF alert.web # ""
    THEN <<[uid |-> uid, relation |-> "r-u", mime |-> "text/html",
            url |-> alert.web, remarks |-> "CAP Alert Details"]>>
    ELSE <<>>

polygonFeature(alert, pid, coordinates) ==
    [id |-> pid, geometry |-> PolygonGeometry(coordinates),
     icon |-> Undefined, isCenter |-> FALSE,
     remarks |-> Remarks(alert), links |-> Links(alert, pid),
     time |-> TimeProperty(alert), start |-> StartProperty(alert),
     stale |-> StaleProperty(alert)]

centerFeature(alert, pid, centroid) ==
    [id |-> centerId(pid), geometry |-> CentroidGeometry(centroid),
     icon |-> getEventIcon(alert.event, alert.category), isCenter |-> TRUE,
     remarks |-> polygonFeature(alert, pid, <<>>).remarks,
     links |-> Links(alert, CenterLinkUid(pid)),
     time |-> TimeProperty(alert), start |-> StartProperty(alert),
     stale |-> StaleProperty(alert)]

pointFeature(alert, geometry) ==
    [id |-> alert.identifier, geometry |-> geometry,
     icon |-> getEventIcon(alert.event, alert.category), isCenter |-> FALSE,
     remarks |-> Remarks(alert), links |-> Links(alert, alert.identifier),
     time |-> TimeProperty(alert), start |-> StartProperty(alert),
     stale |-> StaleProperty(alert)]

\* coordinates[0].length >= 4
RingLongEnough(coordinates) == Len(coordinates[1]) >= MinRingLength

\* if (alert.info.area.polygon): a non-empty string or an array
HasPolygon(alert) ==
    \/ alert.polygon.kind = "array"
    \/ alert.polygon.kind = "string" /\ Len(alert.polygon.strs[1]) > 0

\* The for loop over the polygon strings, from ring i on, with the features
\* pushed so far; thrown when parsePolygonString or a date conversion throws.
RECURSIVE PolygonLoop(_, _, _, _)
PolygonLoop(alert, polygons, i, pushed) ==
    IF i > Len(polygons) THEN [thrown |-> FALSE, pushed |-> pushed]
    ELSE LET res == parsePolygonString(polygons[i])
             pid == polygonId(alert, polygons, i)
         IN  IF res.tag = "throw" THEN [thrown |-> TRUE, pushed |-> pushed]
             ELSE IF ~RingLongEnough(res.coordinates)
                  THEN PolygonLoop(alert, polygons, i + 1, pushed)
             ELSE IF DateThrows(alert) THEN [thrown |-> TRUE, pushed |-> pushed]
             ELSE PolygonLoop(alert, polygons, i + 1,
                      pushed \o <<polygonFeature(alert, pid, res.coordinates),
                                  centerFeature(alert, pid,
                                      calculatePolygonCentroid(res.coordinates))>>)

\* Lines 724-812: the fallback geometry, the point feature and its push; a
\* date that does not parse throws to the catch of the iteration.
PointBranch(alert, geometry, pushed) ==
    LET g == IF geometry.type = "none" THEN PointGeometry(FallbackPoint) ELSE geometry
    IN  IF DateThrows(alert) THEN [status |-> "error", added |-> pushed]
        ELSE [status |-> "point", added |-> Append(pushed, pointFeature(alert, g))]

\* The inner catch rethrowing: the error reaches the catch of the iteration.
PolygonCatch_Rethrow(alert, pushed) == [status |-> "error", added |-> pushed]

\* The inner catch: the error is logged and control goes on after the if/else
\* with geometry still null.
PolygonCatch(alert, pushed) == PointBranch(alert, NoGeometry, pushed)

\* The circle never consulted: geometry stays null.
CircleGeometry_Ignored(alert) == NoGeometry

CircleGeometry(alert) ==
    LET circleData == parseCircleString(alert.circle)
    IN  IF circleData.tag = "ok" THEN PointGeometry(circleData.center) ELSE NoGeometry

\* The body of the iteration after parseXML returned an alert.
AssembleFeatures(alert) ==
    IF HasPolygon(alert) THEN
        LET loop == PolygonLoop(alert, alert.polygon.strs, 1, <<>>)
        IN  IF loop.thrown THEN PolygonCatch(alert, loop.pushed)
            ELSE [status |-> "polygons", added |-> loop.pushed]       \* continue
    ELSE IF Len(alert.circle) > 0 THEN PointBranch(alert, CircleGeometry(alert), <<>>)
    ELSE PointBranch(alert, NoGeometry, <<>>)

\* The value of assembleRes before the iteration.
PendingIteration == [status |-> "pending", alert |-> NoAlert("pending"), added |-> <<>>]

\* One iteration of the loop over alertUrls for the document the URL serves.
Iteration(doc) ==
    IF doc.fetch = "fail"
    THEN [status |-> "error", alert |-> NoAlert("none"), added |-> <<>>]
    ELSE LET alert == parseXML(doc)
         IN  IF alert.tag = "throw"
             THEN [status |-> "error", alert |-> alert, added |-> <<>>]
             ELSE IF alert.tag = "null"
             THEN [status |-> "skipped", alert |-> alert, added |-> <<>>]
             ELSE [status |-> AssembleFeatures(alert).status, alert |-> alert,
                   added |-> AssembleFeatures(alert).added]

-----------------------------------------------------------------------------
(* The documents the alert URLs of a run may serve *)

Tri      == <<Pair(0, 0), Pair(1, 0), Pair(LatMax, LonMax)>>
Quad     == <<Pair(0, 0), Pair(1, 0), Pair(LatMax, LonMax), Pair(LatMin, LonMin), Pair(0, 0)>>
Closed3  == <<Pair(0, 0), Pair(1, 0), Pair(0, 0)>>         \* "0,0 1,0 0,0"
BadRing  == <<Pair(0, 0), Pair(1, 0), Pair(LatMax + 1, 0)>>

CtlPolygons ==
    {OnePolygon(Tri), OnePolygon(BadRing), OnePolygon(Closed3),
     PolygonArray(<<Tri, Quad>>), PolygonArray(<<Tri, BadRing>>),
     PolygonArray(<<BadRing, Tri>>)}

GoodCircle == <<Pair(0 - 41, 175), <<Num(50)>>>>           \* "-41,175 50"
BadCircle  == <<Pair(0 - 41, 175), <<Num(0)>>>>            \* "-41,175 0"

\* Identifier and sent of the documents that parse to an alert.
CtlHeads == {<<"a", GoodDate>>, <<"a-0", GoodDate>>, <<"a", BadDate>>}

\* Documents from which parseXML returns an alert: no polygon with each
\* kind of circle, and each polygon without and with a circle.
AlertDocs ==
    {[BaseDoc EXCEPT !.identifier = h[1], !.sent = h[2], !.polygon = g[1], !.circle = g[2]] :
        h \in CtlHeads,
        g \in ({NoPolygon} \X {<<>>, GoodCircle, BadCircle})
              \cup (CtlPolygons \X {<<>>, GoodCircle})}

\* Documents that yield no alert, one for each cause.
FailingDocs ==
    {[BaseDoc EXCEPT !.fetch = "fail"],
     [BaseDoc EXCEPT !.wellFormed = FALSE],
     [BaseDoc EXCEPT !.hasAlert = FALSE, !.hasInfo = FALSE],
     [BaseDoc EXCEPT !.hasInfo = FALSE],
     [BaseDoc EXCEPT !.identifier = ""],
     [BaseDoc EXCEPT !.sender = ""],
     [BaseDoc EXCEPT !.sent = ""]}

\* Alerts with an onset, an expiry, both, and an onset that is no date,
\* each with one polygon and with none.
TimedDocs ==
    {[BaseDoc EXCEPT !.onset = t[1], !.expires = t[2], !.polygon = g] :
        t \in {<<LaterDate, "">>, <<"", LaterDate>>, <<UtcDate, LaterDate>>,
               <<BadDate, "">>},
        g \in {NoPolygon, OnePolygon(Tri)}}

CtlDocs == AlertDocs \cup FailingDocs \cup TimedDocs

-----------------------------------------------------------------------------
(* Task.fetchWithRetry.  The attempts are numbered from 0 as in the source;  *)
(* a timer or a controller is named by the number of its attempt.            *)

MaxRetries == 2        \* largest value of retries

\* What the call gives its caller: nothing yet, the response of an attempt,
\* the error of an attempt, or undefined (the function body ran off its end).
PendingOutcome == [kind |-> "pending", of |-> 0, error |-> ""]
Response(a) == [kind |-> "response", of |-> a, error |-> ""]
ThrownError(a, err) == [kind |-> "error", of |-> a, error |-> err]
ReturnedUndefined == [kind |-> "undefined", of |-> 0, error |-> ""]

\* attempt <= retries
LoopGuard(a, r) == a * r.d <= r.n

\* Every failed attempt taken for the last one.
IsLastAttempt_Always(a, r) == TRUE

\* attempt === retries
IsLastAttempt(a, r) == a * r.d = r.n

\* The timer left armed.
ClearTimeout_Skipped(pending, k) == pending

\* clearTimeout(timeoutId)
ClearTimeout(pending, k) == pending \ {k}

-----------------------------------------------------------------------------
(* Task.control *)

IdleCtl ==
    /\ pc = "idle" /\ feedOutcome = "pending" /\ alertUrls = <<>> /\ idx = 0
    /\ features = <<>> /\ submitted = <<>> /\ history = <<>>
IdlePoly == polygonStr = <<>> /\ polygonRes = Pending
IdleCirc == circleStr = <<>> /\ circleRes = PendingCircle
IdleXml  == xmlDoc = BaseDoc /\ xmlRes = NoAlert("pending")
IdleCent == centroidRing = <<>> /\ centroidRes = <<>>
IdleFeed == feedText = <<>> /\ feedLinks = PendingLinks
IdleIcon == iconArgs = <<"", "">> /\ iconRes = ""
IdleAlert == assembleDoc = BaseDoc /\ assembleRes = PendingIteration
IdleFetch ==
    /\ retries = Whole(0) /\ attempt = 0 /\ fetchPc = "unused"
    /\ timers = {} /\ aborted = {} /\ fetchLog = <<>> /\ fetchOutcome = PendingOutcome

Init ==
    /\ pc = "start" /\ feedOutcome = "pending" /\ alertUrls = <<>> /\ idx = 0
    /\ features = <<>> /\ submitted = <<>> /\ history = <<>>
    /\ IdlePoly /\ IdleCirc /\ IdleXml /\ IdleCent /\ IdleFeed /\ IdleIcon /\ IdleAlert
    /\ IdleFetch

\* fetchWithRetry of the feed succeeds and parseFeed returns n URLs.
FeedFetched(n) ==
    /\ pc = "start"
    /\ feedOutcome' = "ok"
    /\ alertUrls' = [k \in 1..n |-> k]
    /\ pc' = "loop"
    /\ UNCHANGED <<idx, features, submitted, history, helperVars>>

\* The feed's fetch inside a try/catch that logs the error: control goes on
\* to the loop with no URL.
AfterFeedError_Caught == "loop"

\* Where control is after the feed's fetchWithRetry threw: the await is
\* outside every try, so the promise control returned is rejected.
AfterFeedError == "aborted"

\* fetchWithRetry of the feed throws after its last attempt.
FeedFailed ==
    /\ pc = "start"
    /\ feedOutcome' = "error"
    /\ pc' = AfterFeedError
    /\ UNCHANGED <<alertUrls, idx, features, submitted, history, helperVars>>

\* The try/catch around the loop instead of inside it: an error ends the loop.
NextIndex_AbortOnError(i, status) ==
    IF status = "error" THEN Len(alertUrls) ELSE i + 1

\* The index of the next URL after an iteration ended with the given status:
\* the try/catch is inside the loop, so the loop goes on in every case.
NextIndex(i, status) == i + 1

\* The collection reset to what the iteration pushed.
Push_Replace(collection, added) == added

\* A feature pushed only when the collection has none with its id yet.
Push_SkipKnownIds(collection, added) ==
    LET IsNew(f) == \A i \in 1..Len(collection) : collection[i].id # f.id
    IN  collection \o SelectSeq(added, IsNew)

\* The features of the iteration put in front of the collection.
Push_Front(collection, added) == added \o collection

\* fc.features.push(...) for each feature of the iteration, in order.
Push(collection, added) == collection \o added

\* One iteration of for (const alertUrl of alertUrls).
ProcessAlert(doc) ==
    /\ pc = "loop"
    /\ idx < Len(alertUrls)
    /\ LET it == Iteration(doc)
       IN  /\ features' = Push(features, it.added)
           /\ history' = Append(history,
                  [url |-> alertUrls[idx + 1], doc |-> doc, alert |-> it.alert,
                   status |-> it.status,
                   from |-> Len(features),
                   to |-> Len(Push(features, it.added))])
           /\ idx' = NextIndex(idx, it.status)
    /\ UNCHANGED <<pc, feedOutcome, alertUrls, submitted, helperVars>>

\* await this.submit(fc)
Submit ==
    /\ pc = "loop"
    /\ idx >= Len(alertUrls)
    /\ submitted' = Append(submitted, features)
    /\ pc' = "submitted"
    /\ UNCHANGED <<feedOutcome, alertUrls, idx, features, history, helperVars>>

Next ==
    \/ \E n \in 0..MaxUrls : FeedFetched(n)
    \/ FeedFailed
    \/ \E doc \in CtlDocs : ProcessAlert(doc)
    \/ Submit

Spec == Init /\ [][Next]_vars

-----------------------------------------------------------------------------
(* The pure helpers, each applied to every input within the bounds *)

InitPolygon ==
    /\ IdleCtl /\ IdleCirc /\ IdleXml /\ IdleCent /\ IdleFeed /\ IdleIcon /\ IdleAlert
    /\ IdleFetch
    /\ polygonStr \in PolygonStrings
    /\ polygonRes = Pending

CallParsePolygon ==
    /\ polygonRes.tag = "pending"
    /\ polygonRes' = parsePolygonString(polygonStr)
    /\ UNCHANGED <<ctlVars, polygonStr, circVars, xmlVars, centVars, feedVars, iconVars,
                   alertVars, fetchVars>>

SpecPolygon == InitPolygon /\ [][CallParsePolygon]_vars

\* The certificates and parameters of the documents given to parseXML alone.
Stamp(yy, mm, dd) == [yy |-> yy, mm |-> mm, dd |-> dd]

StampLists ==
    {<<>>, <<Stamp("24", "10", "23")>>,
     <<Stamp("24", "10", "23"), Stamp("26", "11", "05")>>,
     <<Stamp("24", "10", "23"), Stamp("26", "11", "05"), Stamp("30", "01", "02")>>}

CnMatches == {NotFound, Found("cap.example.nz", FALSE), Found("cap.example.nz", TRUE)}
OMatches == {NotFound, Found("Example Ltd", FALSE), Found("Example Ltd", TRUE)}

CertValues ==
    {AbsentCert,
     Cert("empty", NotFound, NotFound, <<>>),
     Cert("badbase64", NotFound, NotFound, <<>>),
     Cert("nontext", NotFound, NotFound, <<>>)}
    \cup {Cert(k, cn, o, d) :
            k \in {"text", "wrapped"}, cn \in CnMatches, o \in OMatches, d \in StampLists}

ParamEntries ==
    {Param("ColourCodeHex", "#123456"), Param("ColourCodeHex", "#abcdef"),
     Param("ColourCode", "Red"), Param("ColourCode", "Orange"),
     Param("ColourCode", "Yellow"), Param("ColourCode", "Green"),
     Param("ColourCode", "Blue"), Param("ColourCode", "Purple"),
     Param("ColourCode", "constructor"), Param("Other", "x")}

ParameterValues ==
    {NoParameter, EmptyParameter}
    \cup {OneParameter(p) : p \in ParamEntries}
    \cup {ParameterArray(<<p, q>>) : p, q \in ParamEntries}

\* CAP documents for parseXML alone: every combination of the tests it
\* makes on the required elements, and every certificate with a sample of
\* the parameters and every parameter with a sample of the certificates.
XmlDocs ==
    {[BaseDoc EXCEPT !.wellFormed = w, !.hasAlert = a, !.hasInfo = i,
                     !.identifier = id, !.sender = sn, !.sent = st, !.polygon = g] :
        w \in BOOLEAN, a \in BOOLEAN, i \in BOOLEAN,
        id \in {"", "a"}, sn \in {"", "s"}, st \in {"", GoodDate, BadDate},
        g \in {NoPolygon, OnePolygon(Tri)}}
    \cup {[BaseDoc EXCEPT !.cert = c, !.parameter = q, !.sender = sn] :
            c \in CertValues,
            q \in {NoParameter, OneParameter(Param("ColourCode", "Red"))},
            sn \in {"", "s"}}
    \cup {[BaseDoc EXCEPT !.cert = c, !.parameter = q] :
            c \in {AbsentCert, Cert("nontext", NotFound, NotFound, <<>>)},
            q \in ParameterValues}

InitXml ==
    /\ IdleCtl /\ IdlePoly /\ IdleCirc /\ IdleCent /\ IdleFeed /\ IdleIcon /\ IdleAlert
    /\ IdleFetch
    /\ xmlDoc \in XmlDocs
    /\ xmlRes = NoAlert("pending")

CallParseXML ==
    /\ xmlRes.tag = "pending"
    /\ xmlRes' = parseXML(xmlDoc)
    /\ UNCHANGED <<ctlVars, polyVars, circVars, xmlDoc, centVars, feedVars, iconVars,
                   alertVars, fetchVars>>

SpecXml == InitXml /\ [][CallParseXML]_vars

InitCircle ==
    /\ IdleCtl /\ IdlePoly /\ IdleXml /\ IdleCent /\ IdleFeed /\ IdleIcon /\ IdleAlert
    /\ IdleFetch
    /\ circleStr \in CircleStrings
    /\ circleRes = PendingCircle

CallParseCircle ==
    /\ circleRes.tag = "pending"
    /\ circleRes' = parseCircleString(circleStr)
    /\ UNCHANGED <<ctlVars, polyVars, circleStr, xmlVars, centVars, feedVars, iconVars,
                   alertVars, fetchVars>>

SpecCircle == InitCircle /\ [][CallParseCircle]_vars

\* The rings calculatePolygonCentroid is called with: control passes it the
\* ring parsePolygonString returned, closed, when it has at least 4 points.
MaxVertices == 4       \* most points of a ring before it is closed

CentroidPoints == {<<x, y>> : x \in {0, 2, 5}, y \in {0 - 3, 0, 2}}

CentroidRings ==
    {Append(v, v[1]) :
        v \in UNION {[1..k -> CentroidPoints] : k \in MinPoints..MaxVertices}}

InitCentroid ==
    /\ IdleCtl /\ IdlePoly /\ IdleCirc /\ IdleXml /\ IdleFeed /\ IdleIcon /\ IdleAlert
    /\ IdleFetch
    /\ centroidRing \in CentroidRings
    /\ centroidRes = <<>>

CallCentroid ==
    /\ centroidRes = <<>>
    /\ centroidRes' = calculatePolygonCentroid(<<centroidRing>>)
    /\ UNCHANGED <<ctlVars, polyVars, circVars, xmlVars, centroidRing, feedVars, iconVars,
                   alertVars, fetchVars>>

SpecCentroid == InitCentroid /\ [][CallCentroid]_vars

InitFeed ==
    /\ IdleCtl /\ IdlePoly /\ IdleCirc /\ IdleXml /\ IdleCent /\ IdleIcon /\ IdleAlert
    /\ IdleFetch
    /\ feedText \in FeedTextsUpTo(MaxElements)
    /\ feedLinks = PendingLinks

CallParseFeed ==
    /\ feedLinks = PendingLinks
    /\ feedLinks' = parseFeed(feedText)
    /\ UNCHANGED <<ctlVars, polyVars, circVars, xmlVars, centVars, feedText, iconVars,
                   alertVars, fetchVars>>

SpecFeed == InitFeed /\ [][CallParseFeed]_vars

\* Event codes: every code of the table, the empty code, a code the table
\* does not have, the category names, and a name every object inherits.
EventCodes == DOMAIN ICON_MAP \cup {"", "volcano", "Health", "Fire", "constructor"}

\* Categories: the two with an icon of their own, others, the empty one,
\* and none (the second argument is optional).
Categories == {"Health", "Fire", "Met", "Geo", "health", "", Undefined}

InitIcon ==
    /\ IdleCtl /\ IdlePoly /\ IdleCirc /\ IdleXml /\ IdleCent /\ IdleFeed /\ IdleAlert
    /\ IdleFetch
    /\ iconArgs \in EventCodes \X Categories
    /\ iconRes = ""

CallGetEventIcon ==
    /\ iconRes = ""
    /\ iconRes' = getEventIcon(iconArgs[1], iconArgs[2])
    /\ UNCHANGED <<ctlVars, polyVars, circVars, xmlVars, centVars, feedVars, iconArgs,
                   alertVars, fetchVars>>

SpecIcon == InitIcon /\ [][CallGetEventIcon]_vars

\* The documents served to one iteration taken alone: every text of the
\* remarks, the dates, the certificate, the web link and the geometry vary.
Descriptions ==
    {OneLine("Heavy rain"), NoText, <<"Heavy rain.", "Stay indoors.">>,
     <<"Heavy rain.", "", "Stay indoors.">>}

Instructions == {NoText, OneLine("Stay indoors")}

Ratings == {<<"", "">>, <<"Expected", "">>, <<"", "Severe">>, <<"Expected", "Severe">>}

Periods == {<<"", "">>, <<LaterDate, "">>, <<UtcDate, LaterDate>>, <<BadDate, "">>}

AlertCerts ==
    {AbsentCert,
     Cert("empty", NotFound, NotFound, <<>>),
     Cert("badbase64", NotFound, NotFound, <<>>),
     Cert("text", Found("cap.example.nz", FALSE), NotFound,
          <<Stamp("24", "10", "23"), Stamp("26", "11", "05")>>)}

WebLinks == {"", "https://alerts.example.nz/a"}

AlertGeometries ==
    ({NoPolygon} \X {<<>>, GoodCircle, BadCircle})
    \cup ((CtlPolygons \cup {PolygonArray(<<Tri, Closed3>>)}) \X {<<>>, GoodCircle})

IterationDocs ==
    {[BaseDoc EXCEPT !.description = d, !.instruction = i,
                     !.urgency = r[1], !.severity = r[2],
                     !.certainty = r[1], !.responseType = r[2],
                     !.onset = t[1], !.expires = t[2], !.cert = c, !.web = w,
                     !.polygon = g[1], !.circle = g[2]] :
        d \in Descriptions, i \in Instructions, r \in Ratings, t \in Periods,
        c \in AlertCerts, w \in WebLinks, g \in AlertGeometries}
    \cup FailingDocs

InitAlert ==
    /\ IdleCtl /\ IdlePoly /\ IdleCirc /\ IdleXml /\ IdleCent /\ IdleFeed /\ IdleIcon
    /\ IdleFetch
    /\ assembleDoc \in IterationDocs
    /\ assembleRes = PendingIteration

CallIteration ==
    /\ assembleRes.status = "pending"
    /\ assembleRes' = Iteration(assembleDoc)
    /\ UNCHANGED <<ctlVars, polyVars, circVars, xmlVars, centVars, feedVars, iconVars,
                   assembleDoc, fetchVars>>

SpecAlert == InitAlert /\ [][CallIteration]_vars

\* Retries: Type.Number accepts every number; here the halves from -1 to
\* MaxRetries.
RetriesValues == {Frac(k, 2) : k \in (0 - 2)..(2 * MaxRetries)}

InitFetch ==
    /\ IdleCtl /\ IdlePoly /\ IdleCirc /\ IdleXml /\ IdleCent /\ IdleFeed /\ IdleIcon
    /\ IdleAlert
    /\ retries \in RetriesValues
    /\ attempt = 0 /\ fetchPc = "idle"
    /\ timers = {} /\ aborted = {} /\ fetchLog = <<>> /\ fetchOutcome = PendingOutcome

otherVars ==
    <<ctlVars, polyVars, circVars, xmlVars, centVars, feedVars, iconVars, alertVars>>

\* The head of the for loop reached with attempt = a and the timers in
\* pending: the guard, then new AbortController(), setTimeout(...) and the
\* call of fetch; or the end of the function body.
LoopHead(a, pending) ==
    /\ attempt' = a
    /\ IF LoopGuard(a, retries)
       THEN /\ timers' = pending \cup {a}
            /\ fetchPc' = "fetching"
            /\ fetchOutcome' = fetchOutcome
       ELSE /\ timers' = pending
            /\ fetchPc' = "returned"
            /\ fetchOutcome' = ReturnedUndefined

\* The call, up to its first await.
CallFetchWithRetry ==
    /\ fetchPc = "idle"
    /\ LoopHead(0, timers)
    /\ UNCHANGED <<retries, aborted, fetchLog, otherVars>>

\* The catch block entered with err: the throw of the last attempt (the
\* finally block runs on the way out), or the start of the back-off delay
\* (the finally block has not run yet).
AttemptFails(err) ==
    /\ fetchLog' = Append(fetchLog, err)
    /\ IF IsLastAttempt(attempt, retries)
       THEN /\ timers' = ClearTimeout(timers, attempt)
            /\ fetchPc' = "thrown"
            /\ fetchOutcome' = ThrownError(attempt, err)
       ELSE /\ timers' = timers
            /\ fetchPc' = "backoff"
            /\ fetchOutcome' = fetchOutcome
    /\ UNCHANGED <<retries, attempt, aborted, otherVars>>

\* The fetch of the attempt resolves with a response: return res through the
\* finally block when res.ok, else throw new Error(`HTTP ...`).
FetchResolves(ok) ==
    /\ fetchPc = "fetching"
    /\ attempt \notin aborted
    /\ IF ok
       THEN /\ fetchLog' = Append(fetchLog, "ok")
            /\ timers' = ClearTimeout(timers, attempt)
            /\ fetchPc' = "returned"
            /\ fetchOutcome' = Response(attempt)
            /\ UNCHANGED <<retries, attempt, aborted, otherVars>>
       ELSE AttemptFails("status")

\* The fetch of the attempt rejects on its own (network error).
FetchRejects ==
    /\ fetchPc = "fetching"
    /\ attempt \notin aborted
    /\ AttemptFails("network")

\* The fetch of the attempt rejects because its signal has aborted.
AbortRejects ==
    /\ fetchPc = "fetching"
    /\ attempt \in aborted
    /\ AttemptFails("abort")

\* The timer of attempt k fires: () => controller.abort()
TimeoutFires(k) ==
    /\ k \in timers
    /\ timers' = timers \ {k}
    /\ aborted' = aborted \cup {k}
    /\ UNCHANGED <<retries, attempt, fetchPc, fetchLog, fetchOutcome, otherVars>>

\* The back-off delay ends: the finally block, attempt++ and the loop head.
BackoffEnds ==
    /\ fetchPc = "backoff"
    /\ LoopHead(attempt + 1, ClearTimeout(timers, attempt))
    /\ UNCHANGED <<retries, aborted, fetchLog, otherVars>>

NextFetch ==
    \/ CallFetchWithRetry
    \/ \E ok \in BOOLEAN : FetchResolves(ok)
    \/ FetchRejects
    \/ AbortRejects
    \/ \E k \in 0..(MaxRetries + 1) : TimeoutFires(k)
    \/ BackoffEnds

SpecFetch == InitFetch /\ [][NextFetch]_vars

\* The event loop runs every callback that is ready: the function body after
\* the call, a timer that is armed, the rejection of an aborted fetch and the
\* end of the back-off delay.  Nothing makes a fetch settle on its own.
SpecFetchFair ==
    /\ SpecFetch
    /\ WF_vars(CallFetchWithRetry)
    /\ WF_vars(\E k \in 0..(MaxRetries + 1) : TimeoutFires(k))
    /\ WF_vars(AbortRejects)
    /\ WF_vars(BackoffEnds)

-----------------------------------------------------------------------------
(* Properties of parsePolygonString, under SpecPolygon *)

\* A pair as the CAP polygon format defines it: two decimal numbers, the
\* latitude in [-90, 90] and the longitude in [-180, 180].
WellFormedPair(p) ==
    /\ Len(p) = 2
    /\ IsNumeric(p[1]) /\ IsNumeric(p[2])
    /\ p[1].v >= 0 - 90 /\ p[1].v <= 90
    /\ p[2].v >= 0 - 180 /\ p[2].v <= 180

AllWellFormed(str) == \A i \in 1..Len(str) : WellFormedPair(str[i])

PolygonCalled == polygonRes.tag # "pending"

\* C6: a polygon string with any pair that is missing a component, is not a
\* number, has not exactly two parts or is out of range makes the call fail,
\* and so does a string with fewer than 3 valid pairs.
C6_EveryBadPairFails ==
    PolygonCalled =>
        /\ (~AllWellFormed(polygonStr) => polygonRes.tag = "throw")
        /\ (Cardinality({i \in 1..Len(polygonStr) : WellFormedPair(polygonStr[i])}) < 3
               => polygonRes.tag = "throw")

\* C7: a string of k >= 3 valid pairs yields one ring, [lon, lat] in input
\* order, closed, of length k + 1 when the first and last pair differ and k
\* when they are equal; closing a closed ring adds nothing.
C7_RingClosedOnce ==
    (PolygonCalled /\ Len(polygonStr) >= 3 /\ AllWellFormed(polygonStr)) =>
        LET k == Len(polygonStr)
            ring == polygonRes.coordinates[1]
            same == polygonStr[1][1].v = polygonStr[k][1].v
                        /\ polygonStr[1][2].v = polygonStr[k][2].v
        IN  /\ polygonRes.tag = "ok"
            /\ Len(polygonRes.coordinates) = 1
            /\ \A i \in 1..k : ring[i] = <<polygonStr[i][2].v, polygonStr[i][1].v>>
            /\ ring[1] = ring[Len(ring)]
            /\ Len(ring) = IF same THEN k ELSE k + 1
            /\ CloseRing(ring) = ring

\* A string of three valid pairs whose ends differ has been parsed and closed.
C7_Witness ==
    /\ PolygonCalled /\ Len(polygonStr) = 3 /\ AllWellFormed(polygonStr)
    /\ polygonStr[1] # polygonStr[3]
    /\ polygonRes.tag = "ok" /\ Len(polygonRes.coordinates[1]) = 4

\* C8: every ring parsePolygonString returns has at least 4 points, with at
\* least 3 distinct vertices.
C8_RingHasFourPoints ==
    polygonRes.tag = "ok" =>
        LET ring == polygonRes.coordinates[1]
        IN  /\ Len(ring) >= 4
            /\ Cardinality({ring[i] : i \in 1..Len(ring)}) >= 3

-----------------------------------------------------------------------------
(* Properties of parseCircleString, under SpecCircle *)

\* A circle as the CAP circle format defines it: "lat,lon radius" with
\* decimal numbers, the coordinates in range and the radius above zero.
WellFormedCircle(str) ==
    /\ Len(str) = 2
    /\ WellFormedPair(str[1])
    /\ Len(str[2]) = 1 /\ IsNumeric(str[2][1]) /\ str[2][1].v > 0

CircleCalled == circleRes.tag # "pending"

\* C9: a well-formed circle string yields its center [lon, lat] and its
\* radius; an empty or malformed string, a radius that is not a number or
\* not above zero, and coordinates out of range yield null; no call throws.
C9_CircleOrNull ==
    CircleCalled =>
        /\ circleRes.tag \in {"ok", "null"}
        /\ WellFormedCircle(circleStr) =>
               /\ circleRes.tag = "ok"
               /\ circleRes.center = <<circleStr[1][2].v, circleStr[1][1].v>>
               /\ circleRes.radius = circleStr[2][1].v
        /\ ~WellFormedCircle(circleStr) => circleRes.tag = "null"

-----------------------------------------------------------------------------
(* Properties of Task.control, under Spec.  The vocabulary of the claims is *)
(* defined on the document an alert URL served.                             *)

\* The document is fetched and holds an alert with its required fields.
DocIsAlert(d) ==
    /\ d.fetch = "ok" /\ d.wellFormed /\ d.hasAlert /\ d.hasInfo
    /\ d.identifier # "" /\ d.sender # "" /\ d.sent # ""

\* A date of the alert is not a parseable date.
DocDateError(d) ==
    /\ DocIsAlert(d)
    /\ \/ ~DateParses(d.sent)
       \/ d.onset # "" /\ ~DateParses(d.onset)
       \/ d.expires # "" /\ ~DateParses(d.expires)

DocHasPolygon(d) == d.polygon.kind # "none"

\* A polygon string with a bad pair or fewer than 3 valid points.
StringInvalid(str) == ~AllWellFormed(str) \/ Len(str) < 3

DocGeometryError(d) ==
    /\ DocIsAlert(d) /\ DocHasPolygon(d)
    /\ \E i \in 1..Len(d.polygon.strs) : StringInvalid(d.polygon.strs[i])

\* The index of the first invalid polygon string of the document.
FirstInvalid(d) ==
    CHOOSE i \in 1..Len(d.polygon.strs) :
        /\ StringInvalid(d.polygon.strs[i])
        /\ \A j \in 1..(i - 1) : ~StringInvalid(d.polygon.strs[j])

\* The features the iteration recorded in h left in the collection.
Added(h) == SubSeq(features, h.from + 1, h.to)

IsFallbackPoint(f, d) ==
    /\ f.id = d.identifier
    /\ f.geometry.type = "Point"
    /\ f.geometry.coordinates = <<Whole(174), Whole(0 - 41)>>
    /\ f.icon # Undefined

\* Every URL has had its iteration, in feed order, and each feature of the
\* collection was added by exactly one of them.
AllProcessedInOrder ==
    /\ Len(history) = Len(alertUrls)
    /\ \A k \in 1..Len(history) : history[k].url = alertUrls[k]

HistoryTiles ==
    /\ \A k \in 1..Len(history) : history[k].from <= history[k].to
    /\ Len(history) > 0 => history[1].from = 0 /\ history[Len(history)].to = Len(features)
    /\ \A k \in 1..(Len(history) - 1) : history[k].to = history[k + 1].from

SubmittedOnceAtEnd ==
    /\ pc # "submitted" => submitted = <<>>
    /\ pc = "submitted" =>
           /\ Len(submitted) = 1 /\ submitted[1] = features
           /\ AllProcessedInOrder

IsPolygon(f) == f.geometry.type = "Polygon"
IsPoint(f) == f.geometry.type = "Point"

\* C3 as stated: in a submitted collection every Polygon feature with id X
\* has exactly one Point feature with id X-center; no Polygon has an icon
\* and every Point has one.
C3_ExactlyOneCenter ==
    \A s \in 1..Len(submitted) :
        LET fc == submitted[s]
        IN  \A i \in 1..Len(fc) :
                /\ IsPolygon(fc[i]) =>
                       /\ Cardinality({j \in 1..Len(fc) :
                              IsPoint(fc[j]) /\ fc[j].id = fc[i].id \o "-center"}) = 1
                       /\ fc[i].icon = Undefined
                /\ IsPoint(fc[i]) => fc[i].icon # Undefined

\* C3 as amended: every Polygon feature with id X is immediately followed by
\* a Point feature with id X-center (so there is at least one); no Polygon
\* has an icon and every Point has one.
C3_CenterFollowsPolygon ==
    \A s \in 1..Len(submitted) :
        LET fc == submitted[s]
        IN  \A i \in 1..Len(fc) :
                /\ IsPolygon(fc[i]) =>
                       /\ i < Len(fc)
                       /\ IsPoint(fc[i + 1])
                       /\ fc[i + 1].id = fc[i].id \o "-center"
                       /\ fc[i].icon = Undefined
                /\ IsPoint(fc[i]) => fc[i].icon # Undefined

\* A collection with a Polygon feature was submitted.
C3_Witness ==
    /\ pc = "submitted"
    /\ \E i \in 1..Len(submitted[1]) : IsPolygon(submitted[1][i])

\* C4: an alert with n valid polygon strings (and dates that parse) adds
\* exactly 2n features: ring i's Polygon, of one ring, with id identifier-i
\* (identifier when n = 1), then its center with that id and -center.
C4_TwoFeaturesPerRing ==
    \A k \in 1..Len(history) :
        LET h == history[k]
            d == h.doc
            n == Len(d.polygon.strs)
        IN  (/\ DocIsAlert(d) /\ ~DocDateError(d) /\ DocHasPolygon(d)
             /\ \A i \in 1..n : ~StringInvalid(d.polygon.strs[i])) =>
                /\ h.to - h.from = 2 * n
                /\ \A i \in 1..n :
                       LET pid == IF n >= 2 THEN d.identifier \o "-" \o ToString(i - 1)
                                  ELSE d.identifier
                       IN  /\ IsPolygon(Added(h)[2 * i - 1])
                           /\ Len(Added(h)[2 * i - 1].geometry.coordinates) = 1
                           /\ Added(h)[2 * i - 1].id = pid
                           /\ IsPoint(Added(h)[2 * i])
                           /\ Added(h)[2 * i].id = pid \o "-center"

IsAlertPoint(f, d) ==
    /\ f.id = d.identifier
    /\ IsPoint(f)
    /\ f.icon # Undefined
    /\ LET c == parseCircleString(d.circle)
       IN  f.geometry.coordinates =
               IF Len(d.circle) > 0 /\ c.tag = "ok"
               THEN <<Whole(c.center[1]), Whole(c.center[2])>>
               ELSE <<Whole(174), Whole(0 - 41)>>

\* C10 as stated: an alert with no polygon adds exactly one feature, a Point
\* with the alert's identifier and an icon, at the circle's center when the
\* circle is present and parses and at [174, -41] otherwise.
C10_OnePointPerAlert ==
    \A k \in 1..Len(history) :
        LET h == history[k]
        IN  (DocIsAlert(h.doc) /\ ~DocHasPolygon(h.doc)) =>
                /\ h.to = h.from + 1
                /\ IsAlertPoint(features[h.to], h.doc)

\* C10 as amended: the same, for an alert whose dates parse.
C10_OnePointWhenDatesParse ==
    \A k \in 1..Len(history) :
        LET h == history[k]
        IN  (DocIsAlert(h.doc) /\ ~DocHasPolygon(h.doc) /\ ~DocDateError(h.doc)) =>
                /\ h.to = h.from + 1
                /\ IsAlertPoint(features[h.to], h.doc)

\* An alert with a circle that parses and one with a circle that does not
\* each added their point.
C10_Witness ==
    /\ \E k \in 1..Len(history) :
           /\ ~DocHasPolygon(history[k].doc) /\ history[k].doc.circle = GoodCircle
           /\ history[k].to = history[k].from + 1
           /\ features[history[k].to].geometry.coordinates = <<Whole(175), Whole(0 - 41)>>
    /\ \E k \in 1..Len(history) :
           /\ ~DocHasPolygon(history[k].doc) /\ history[k].doc.circle = BadCircle
           /\ history[k].to = history[k].from + 1

-----------------------------------------------------------------------------
(* Properties of calculatePolygonCentroid, under SpecCentroid *)

CentroidCalled == centroidRes # <<>>

Reverse(s) == [i \in 1..Len(s) |-> s[Len(s) + 1 - i]]

SquareRing == <<<<0, 0>>, <<2, 0>>, <<2, 2>>, <<0, 2>>, <<0, 0>>>>

\* The sums of the shoelace formula over the first k edges, in exact
\* arithmetic: twice the signed area, and six times the area times the
\* centroid's x and y.
ExactSums(points, k) ==
    LET a == [i \in 1..k |-> points[i][1] * points[i + 1][2] - points[i + 1][1] * points[i][2]]
    IN  [area |-> SumTo(a, k),
         cx |-> SumTo([i \in 1..k |-> (points[i][1] + points[i + 1][1]) * a[i]], k),
         cy |-> SumTo([i \in 1..k |-> (points[i][2] + points[i + 1][2]) * a[i]], k)]

\* The area centroid (cx / (6 * area), cy / (6 * area)) of a ring whose
\* area is not zero, each quotient rounded once.
ShoelaceCentroid(points) ==
    LET e == ExactSums(points, Len(points) - 1)
    IN  <<fdiv(e.cx, 3 * e.area), fdiv(e.cy, 3 * e.area)>>

\* The arithmetic mean of all points of the ring, each quotient rounded once.
MeanOfPoints(points) ==
    LET n == Len(points)
    IN  <<fdiv(SumTo([i \in 1..n |-> points[i][1]], n), n),
          fdiv(SumTo([i \in 1..n |-> points[i][2]], n), n)>>

\* No running sum of the loop over the edges is rounded, nor is 6 * area.
SumsExact(points) ==
    /\ \A k \in 1..(Len(points) - 1) : ShoelaceSums(points, k) = ExactSums(points, k)
    /\ SixArea(ExactSums(points, Len(points) - 1).area)
           = 3 * ExactSums(points, Len(points) - 1).area

SignedAreaZero(points) == ExactSums(points, Len(points) - 1).area = 0

\* What C11 says of one ring: it gets the shoelace centroid (when the sums
\* are not rounded, the exact one with each quotient rounded once).
C11_IsShoelaceCentroid ==
    /\ (CentroidCalled /\ SumsExact(centroidRing) /\ ~SignedAreaZero(centroidRing))
          => centroidRes = ShoelaceCentroid(centroidRing)
    /\ (CentroidCalled /\ centroidRing = SquareRing) => centroidRes = <<Whole(1), Whole(1)>>

C12_DegenerateGetsMean ==
    CentroidCalled =>
        /\ SignedAreaZero(centroidRing) => centroidRes = MeanOfPoints(centroidRing)
        /\ centroidRes[1].d # 0 /\ centroidRes[2].d # 0

\* A ring of three distinct collinear points got the mean of its four points.
C12_Witness ==
    /\ CentroidCalled
    /\ centroidRing = <<<<0, 0>>, <<2, 0>>, <<5, 0>>, <<0, 0>>>>
    /\ centroidRes = <<Frac(7, 4), Whole(0)>>

-----------------------------------------------------------------------------
(* Properties of parseFeed, under SpecFeed *)

FeedCalled == feedLinks # PendingLinks

IsLinkElement(e) == e.form \in {"rss", "atom"}

\* The link of a link element: its text without the surrounding white space.
LinkOf(e) == [e.text EXCEPT !.space = 0, !.chars = e.text.chars - e.text.space]

ContainsCapOrAlert(link) == link.cap \/ link.alert

\* The links of the feed that contain "/cap/" or "alert".
Candidates(feed) ==
    {LinkOf(feed[i]) : i \in {j \in 1..Len(feed) :
        IsLinkElement(feed[j]) /\ ContainsCapOrAlert(LinkOf(feed[j]))}}

\* Those among them whose text has 1 to 1000 characters.
ShortCandidates(feed) ==
    {LinkOf(feed[i]) : i \in {j \in 1..Len(feed) :
        /\ IsLinkElement(feed[j]) /\ ContainsCapOrAlert(LinkOf(feed[j]))
        /\ feed[j].text.chars >= 1 /\ feed[j].text.chars <= 1000}}

\* The first element of the given forms whose link is u (0 when none).
FirstOf(feed, forms, u) ==
    LET at == {i \in 1..Len(feed) : feed[i].form \in forms /\ LinkOf(feed[i]) = u}
    IN  IF at = {} THEN 0 ELSE CHOOSE i \in at : \A j \in at : i <= j

\* The place of u when the RSS links are taken first and the Atom links next.
ScanPlace(feed, u) ==
    IF FirstOf(feed, {"rss"}, u) > 0 THEN FirstOf(feed, {"rss"}, u)
    ELSE Len(feed) + FirstOf(feed, {"atom"}, u)

NoDuplicates(seq) == \A i, j \in 1..Len(seq) : seq[i] = seq[j] => i = j

\* C13 as stated: the result has no duplicate and holds exactly the RSS
\* link texts and Atom href values that contain "/cap/" or "alert", in the
\* order in which they are first seen in the feed; it is empty, and no error
\* is raised, when no link matches.
C13_CandidatesInFeedOrder ==
    FeedCalled =>
        /\ NoDuplicates(feedLinks)
        /\ {feedLinks[i] : i \in 1..Len(feedLinks)} = Candidates(feedText)
        /\ \A i, j \in 1..Len(feedLinks) :
               i < j => FirstOf(feedText, {"rss", "atom"}, feedLinks[i])
                            < FirstOf(feedText, {"rss", "atom"}, feedLinks[j])
        /\ Candidates(feedText) = {} => feedLinks = <<>>

\* C13 as amended: the result has no duplicate and holds exactly the
\* trimmed RSS link texts and Atom href values of 1 to 1000 characters that
\* contain "/cap/" or "alert", the links of the RSS scan first and those
\* only the Atom scan finds after them, each scan in feed order; it is empty
\* when no link matches.
C13_CandidatesInScanOrder ==
    FeedCalled =>
        /\ NoDuplicates(feedLinks)
        /\ {feedLinks[i] : i \in 1..Len(feedLinks)} = ShortCandidates(feedText)
        /\ \A i, j \in 1..Len(feedLinks) :
               i < j => ScanPlace(feedText, feedLinks[i]) < ScanPlace(feedText, feedLinks[j])
        /\ ShortCandidates(feedText) = {} => feedLinks = <<>>

\* A feed with the same "/cap/" URL as an RSS link (with white space around
\* it) and as an Atom link, and an unrelated RSS link, gave the URL once.
C13_Witness ==
    /\ feedText = <<Rss(Padded(CapText)), Rss(OtherText), AtomLink(CapText)>>
    /\ feedLinks = <<CapText>>

-----------------------------------------------------------------------------
(* Properties of parseXML, under SpecXml *)

XmlCalled == xmlRes.tag # "pending"

\* The certificate element is in the document.
CertPresent(d) == d.cert.kind # "absent"

\* A step of the extraction raises: the value is not text, or not base64.
CertRaises(d) == d.cert.kind \in {"nontext", "badbase64"}

\* The certificate text decodes.
CertDecodes(d) == d.cert.kind \in {"text", "wrapped"}

\* C14: when the certificate element is present and a step of the
\* extraction raises, parseXML still returns the alert, with every other
\* field as without the certificate and the signature equal to the fallback
\* record; the signature is absent only when the certificate element is.
C14_FallbackNeverAbsent ==
    (XmlCalled /\ DocIsAlert(xmlDoc)) =>
        /\ xmlRes.tag = "alert"
        /\ [xmlRes EXCEPT !.signature = NoSignature]
               = parseXML([xmlDoc EXCEPT !.cert = AbsentCert])
        /\ CertRaises(xmlDoc) =>
               xmlRes.signature =
                   [present |-> TRUE, issuer |-> CERT_DEFAULTS.ISSUER,
                    subject |-> CERT_DEFAULTS.SUBJECT,
                    validUntil |-> CERT_DEFAULTS.VALID_UNTIL, fingerprint |-> "Unknown"]
        /\ ~xmlRes.signature.present => ~CertPresent(xmlDoc)

\* C15: when the certificate decodes, issuer is the trimmed CN= match or
\* "MetService", subject the trimmed O= match or the authority's name, and
\* validUntil 20YY-MM-DD of the second timestamp when there are at least two
\* and the fallback date otherwise; each field is the same for every other
\* certificate that agrees on that field's pattern.
C15_FieldsIndependent ==
    (XmlCalled /\ DocIsAlert(xmlDoc) /\ CertDecodes(xmlDoc)) =>
        LET c == xmlDoc.cert
            sig == xmlRes.signature
            Other(c2) == parseXML([xmlDoc EXCEPT !.cert = c2]).signature
        IN  /\ sig.present
            /\ sig.issuer = IF c.cn.found THEN c.cn.body ELSE "MetService"
            /\ sig.subject = IF c.o.found THEN c.o.body
                             ELSE "METEOROLOGICAL SERVICE OF NEW ZEALAND LIMITED"
            /\ sig.validUntil =
                   IF Len(c.dates) >= 2
                   THEN "20" \o c.dates[2].yy \o "-" \o c.dates[2].mm \o "-" \o c.dates[2].dd
                   ELSE "2025-10-23"
            /\ \A c2 \in {x \in CertValues : x.kind \in {"text", "wrapped"}} :
                   /\ c2.cn = c.cn => Other(c2).issuer = sig.issuer
                   /\ c2.o = c.o => Other(c2).subject = sig.subject
                   /\ c2.dates = c.dates => Other(c2).validUntil = sig.validUntil

\* A certificate with CN= but no O= and three timestamps was decoded: the
\* issuer is the match, the subject the default, the date the second stamp's.
C15_Witness ==
    /\ XmlCalled /\ CertDecodes(xmlDoc)
    /\ xmlDoc.cert.cn = Found("cap.example.nz", TRUE) /\ ~xmlDoc.cert.o.found
    /\ Len(xmlDoc.cert.dates) = 3
    /\ xmlRes.tag = "alert"
    /\ xmlRes.signature.issuer = "cap.example.nz"
    /\ xmlRes.signature.subject = CERT_DEFAULTS.SUBJECT
    /\ xmlRes.signature.validUntil = "2026-11-05"

\* C16: with a ColourCodeHex entry the colour is its value; otherwise with a
\* ColourCode entry it is the hex mapped to Red, Orange, Yellow, Green or Blue
\* and unset for any other name; with neither entry, or no parameter, it is
\* unset.  The parameter is one object or a sequence.
C16_ColourFromParameter ==
    (XmlCalled /\ DocIsAlert(xmlDoc)) =>
        LET ps == xmlDoc.parameter.params
            hex == {i \in 1..Len(ps) : ps[i].valueName = "ColourCodeHex"}
            name == {i \in 1..Len(ps) : ps[i].valueName = "ColourCode"}
            First(S) == CHOOSE i \in S : \A j \in S : i <= j
            value == ps[First(name)].value
        IN  /\ hex # {} => xmlRes.colorCode = ps[First(hex)].value
            /\ (hex = {} /\ name # {}) =>
                   xmlRes.colorCode =
                       CASE value = "Red" -> "#FF0000"
                         [] value = "Orange" -> "#FF8918"
                         [] value = "Yellow" -> "#FFFF00"
                         [] value = "Green" -> "#00FF00"
                         [] value = "Blue" -> "#0000FF"
                         [] OTHER -> NullColour
            /\ (hex = {} /\ name = {}) => xmlRes.colorCode = NullColour

-----------------------------------------------------------------------------
(* Properties of getEventIcon, under SpecIcon *)

IconCalled == iconRes # ""

\* The files an icon can name: those of the table, the default, and the two
\* category icons.
IconFiles ==
    {ICON_MAP[e] : e \in DOMAIN ICON_MAP}
        \cup {DEFAULT_ICON, "Incidents/INC.60.GHS08.HealthHazard.png",
              "Incidents/INC.35.Fire.png"}

\* C17: category Health gives the health-hazard icon and Fire the fire icon
\* whatever the event; otherwise the icon is the table's entry for the event
\* code, or the default information-only icon for a code the table does not
\* have (the empty code included); the icon always carries the prefix.
C17_IconForEveryPair ==
    IconCalled =>
        LET event == iconArgs[1]
            category == iconArgs[2]
        IN  /\ category = "Health" =>
                   iconRes = ICON_PREFIX \o "Incidents/INC.60.GHS08.HealthHazard.png"
            /\ category = "Fire" => iconRes = ICON_PREFIX \o "Incidents/INC.35.Fire.png"
            /\ (category \notin {"Health", "Fire"} /\ event \in DOMAIN ICON_MAP) =>
                   iconRes = ICON_PREFIX \o ICON_MAP[event]
            /\ (category \notin {"Health", "Fire"} /\ event \notin DOMAIN ICON_MAP) =>
                   iconRes = ICON_PREFIX
                                 \o "Incidents/INC.38.NaturalDisaster3.InformationOnly.png"
            /\ \E file \in IconFiles : iconRes = ICON_PREFIX \o file

-----------------------------------------------------------------------------
(* Properties of the features' timestamps, under Spec *)

\* C18: on every feature of the collection (polygon, center or point), time
\* is the alert's sent, start is its onset when that is not empty and its
\* sent otherwise, stale is its expires when that is not empty and absent
\* otherwise, each as the ISO rendering of that instant; a polygon feature
\* and its center carry the same three values.
C18_TimestampsFromAlert ==
    \A k \in 1..Len(history) :
        LET h == history[k]
            d == h.doc
        IN  /\ \A i \in (h.from + 1)..h.to :
                   /\ features[i].time = toISOString(d.sent)
                   /\ features[i].start = IF d.onset # "" THEN toISOString(d.onset)
                                          ELSE toISOString(d.sent)
                   /\ features[i].stale = IF d.expires # "" THEN toISOString(d.expires)
                                          ELSE Undefined
                   /\ features[i].time = "2025-05-31T22:00:00.000Z"
                   /\ features[i].start \in {"2025-05-31T22:00:00.000Z",
                                             "2025-06-01T22:00:00.000Z"}
            /\ \A j \in (h.from + 1)..(h.to - 1) :
                   (IsPolygon(features[j]) /\ features[j + 1].isCenter) =>
                       /\ features[j + 1].time = features[j].time
                       /\ features[j + 1].start = features[j].start
                       /\ features[j + 1].stale = features[j].stale

\* A polygon and its center were added for an alert with an onset and an
\* expiry, and a point for an alert with neither.
C18_Witness ==
    /\ \E k \in 1..Len(history) :
           /\ history[k].doc.onset = UtcDate /\ history[k].doc.expires = LaterDate
           /\ history[k].to = history[k].from + 2
           /\ IsPolygon(features[history[k].from + 1])
           /\ features[history[k].to].isCenter
           /\ features[history[k].to].stale = "2025-06-01T22:00:00.000Z"
    /\ \E k \in 1..Len(history) :
           /\ history[k].doc.onset = "" /\ history[k].doc.expires = ""
           /\ history[k].to = history[k].from + 1
           /\ features[history[k].to].stale = Undefined

-----------------------------------------------------------------------------
(* Properties of the run as a whole, under Spec *)

\* C19: when the fetch of the feed fails, control does not catch the error:
\* the run is aborted, no alert URL has been fetched and submit has not been
\* called (an aborted run takes no further step).
C19_FeedFailureAborts ==
    feedOutcome = "error" =>
        /\ pc = "aborted"
        /\ alertUrls = <<>> /\ idx = 0 /\ history = <<>>
        /\ features = <<>>
        /\ submitted = <<>>

\* The fetch of the feed failed and the run is aborted.
C19_Witness == feedOutcome = "error" /\ pc = "aborted" /\ submitted = <<>>

IsPrefix(s, t) == Len(s) <= Len(t) /\ SubSeq(t, 1, Len(s)) = s

\* C20: every step of control leaves the features already in the collection
\* unchanged and in place: the collection before the step is a prefix of the
\* collection after it, up to and including the step that submits it.
C20_AppendOnly ==
    [][/\ IsPrefix(features, features')
       /\ submitted' # submitted => submitted' = Append(submitted, features)]_vars

\* A second alert added its features behind those of a first one, and the
\* collection was submitted.
C20_Witness ==
    /\ pc = "submitted" /\ Len(history) = 2
    /\ history[1].to > 0 /\ history[2].to > history[2].from
    /\ submitted = <<features>>

\* The features in the collection at the places the k-th iteration filled.
FeaturesOf(k) == SubSeq(features, history[k].from + 1, history[k].to)

\* C21: alerts are processed one after the other in feed order: the k-th
\* iteration is the one for the k-th URL of the feed, its features lie in the
\* collection directly behind those of the iteration before it, the collection
\* submitted is that collection, and within one alert every polygon feature
\* is immediately followed by its center feature and the polygon features
\* follow the order of the rings.
C21_SequentialInFeedOrder ==
    /\ Len(history) = idx
    /\ \A k \in 1..Len(history) :
           /\ history[k].url = alertUrls[k]
           /\ history[k].from = IF k = 1 THEN 0 ELSE history[k - 1].to
           /\ history[k].from <= history[k].to
           /\ history[k].to <= Len(features)
           /\ FeaturesOf(k) = Iteration(history[k].doc).added
    /\ Len(history) > 0 => history[Len(history)].to = Len(features)
    /\ pc = "submitted" => submitted = <<features>>
    /\ \A k \in 1..Len(history) :
           LET added == FeaturesOf(k)
               alert == history[k].alert
               polygons == alert.polygon.strs
           IN  /\ \A p \in 1..Len(added) :
                      IsPolygon(added[p]) =>
                          /\ p < Len(added)
                          /\ added[p + 1].isCenter
                          /\ added[p + 1].id = added[p].id \o "-center"
                          /\ added[p + 1].geometry.type = "Point"
               /\ \A p \in 1..Len(added), q \in 1..Len(added) :
                      (p < q /\ IsPolygon(added[p]) /\ IsPolygon(added[q])) =>
                          \E r1 \in 1..Len(polygons), r2 \in 1..Len(polygons) :
                              /\ r1 < r2
                              /\ added[p].id = polygonId(alert, polygons, r1)
                              /\ added[q].id = polygonId(alert, polygons, r2)
                              /\ added[p].geometry.coordinates =
                                     parsePolygonString(polygons[r1]).coordinates
                              /\ added[q].geometry.coordinates =
                                     parsePolygonString(polygons[r2]).coordinates

\* An alert with two rings, whose four features are in ring order, was
\* followed by an alert with other features, and the collection was submitted.
C21_Witness ==
    /\ pc = "submitted" /\ Len(history) = 2
    /\ history[1].to = 4 /\ history[2].to > 4
    /\ IsPolygon(features[1]) /\ features[2].isCenter
    /\ IsPolygon(features[3]) /\ features[4].isCenter
    /\ features[1].id # features[3].id
    /\ features[5].id # features[1].id

\* The alert has several polygon strings and parsePolygonString throws for
\* one that is not the first.
LaterRingInvalid(alert) ==
    /\ alert.tag = "alert"
    /\ alert.polygon.kind = "array"
    /\ \E r \in 2..Len(alert.polygon.strs) :
           parsePolygonString(alert.polygon.strs[r]).tag = "throw"

\* C22: a failed alert contributes all or nothing: when an alert has several
\* polygon strings of which a later one is invalid, the submitted collection
\* holds no polygon feature and no center feature of that alert.
C22_AllOrNothing ==
    pc = "submitted" =>
        \A k \in 1..Len(history) :
            LaterRingInvalid(history[k].alert) =>
                \A p \in (history[k].from + 1)..history[k].to :
                    ~IsPolygon(submitted[1][p]) /\ ~submitted[1][p].isCenter

\* C23: a date that does not parse is surfaced: an alert whose sent, or
\* non-empty onset or expires, is no date ends its iteration with an error in
\* the per-alert handler, whether it has a polygon or not, it contributes no
\* feature, and the alerts after it are still processed.
C23_BadDateSurfaces ==
    /\ \A k \in 1..Len(history) :
           (history[k].alert.tag = "alert" /\ DateThrows(history[k].alert)) =>
               /\ history[k].status = "error"
               /\ history[k].from = history[k].to
    /\ pc = "submitted" => Len(history) = Len(alertUrls)

\* C30: the features an alert contributes depend on its own document only:
\* they are those the document gives when processed alone, whatever the other
\* alerts of the feed are, whether they fail, and wherever the alert sits;
\* the same document served at two places contributes the same features.
C30_OwnDocumentOnly ==
    \A k \in 1..Len(history) :
        /\ FeaturesOf(k) = Iteration(history[k].doc).added
        /\ \A j \in 1..Len(history) :
               history[j].doc = history[k].doc => FeaturesOf(j) = FeaturesOf(k)

\* The same document was served twice and contributed its features twice.
C30_Witness ==
    /\ pc = "submitted" /\ Len(history) = 2
    /\ history[1].doc = history[2].doc
    /\ FeaturesOf(1) # <<>> /\ FeaturesOf(2) = FeaturesOf(1)

-----------------------------------------------------------------------------
(* Properties of one iteration of the alert loop, under SpecAlert *)

IterationDone == assembleRes.status # "pending"

Lines(text) == {text[i] : i \in 1..Len(text)}

\* The lines of the signature sub-block of an alert.
SignatureLines(alert) ==
    {"Digital Signature",
     "Name: " \o OrUnknown(alert.signature.subject),
     "Issuer: " \o OrUnknown(alert.signature.issuer),
     "Valid Until: " \o OrUnknown(alert.signature.validUntil),
     "Fingerprint: " \o OrUnknown(alert.signature.fingerprint)}

\* C24: the remarks of every feature have no blank line; they hold the
\* signature sub-block exactly when the alert has signature metadata, the
\* Onset and Expires lines exactly when onset and expires are not empty, and
\* "Unknown" for an empty urgency, severity, certainty or response type; the
\* remarks of a center feature are those of its polygon feature.
C24_RemarksLines ==
    IterationDone =>
        LET alert == assembleRes.alert
            added == assembleRes.added
        IN  \A p \in 1..Len(added) :
                LET lines == Lines(added[p].remarks)
                IN  /\ lines \cap BlankLines = {}
                    /\ IF alert.signature.present
                       THEN SignatureLines(alert) \subseteq lines
                       ELSE "Digital Signature" \notin lines
                    /\ ("Onset: " \o toLocaleString(alert.onset) \o " NZT" \in lines)
                           <=> alert.onset # ""
                    /\ ("Expires: " \o toLocaleString(alert.expires) \o " NZT" \in lines)
                           <=> alert.expires # ""
                    /\ alert.urgency = "" => "Urgency: Unknown" \in lines
                    /\ alert.severity = "" => "Severity: Unknown" \in lines
                    /\ alert.certainty = "" => "Certainty: Unknown" \in lines
                    /\ alert.responseType = "" => "Response: Unknown" \in lines
                    /\ added[p].isCenter => added[p].remarks = added[p - 1].remarks

\* C28: an alert that parses to a record and whose processing raises no
\* error contributes at least one feature, whatever its polygon (absent, one
\* string, several) and its circle (absent, valid, invalid).
C28_AtLeastOneFeature ==
    (IterationDone /\ assembleRes.alert.tag = "alert" /\ assembleRes.status # "error") =>
        Len(assembleRes.added) >= 1

\* C29: the features of one alert have pairwise distinct ids, whichever
\* branches emit them; when the alert has a web link every feature has exactly
\* one link, whose uid is the feature's id and whose url is info.web, and
\* without a web link no feature has links.
C29_DistinctIdsOwnLinks ==
    IterationDone =>
        LET alert == assembleRes.alert
            added == assembleRes.added
        IN  /\ \A p \in 1..Len(added), q \in 1..Len(added) :
                   p # q => added[p].id # added[q].id
            /\ \A p \in 1..Len(added) :
                   IF alert.web # ""
                   THEN /\ Len(added[p].links) = 1
                        /\ added[p].links[1].uid = added[p].id
                        /\ added[p].links[1].url = alert.web
                   ELSE added[p].links = <<>>

\* A ring's polygon and center features followed by the fallback point of
\* the same alert, whose second ring is invalid, each with its own link.
C29_Witness ==
    /\ IterationDone
    /\ assembleRes.alert.web # ""
    /\ Len(assembleRes.added) = 3
    /\ IsPolygon(assembleRes.added[1])
    /\ assembleRes.added[2].isCenter
    /\ assembleRes.added[3].id = assembleRes.alert.identifier
    /\ assembleRes.added[2].links[1].uid = assembleRes.added[2].id

-----------------------------------------------------------------------------
(* Properties of fetchWithRetry, under SpecFetch and SpecFetchFair *)

FetchDone == fetchPc \in {"returned", "thrown"}

IntegerRetries == retries.d = 1 /\ retries.n >= 0

Failures == {"status", "network", "abort"}

\* With an integer retries >= 0: at most retries + 1 attempts, each begun
\* after the one before it ended; none after a success; the response returned
\* is that of the first attempt with an OK status; an attempt that fails
\* before the last one, a non-OK status included, is followed by another; the
\* error thrown is that of attempt number retries, after retries + 1 failures.
AttemptsBounded ==
    IntegerRetries =>
        /\ Len(fetchLog) <= retries.n + 1
        /\ attempt <= retries.n
        /\ fetchPc = "fetching" => Len(fetchLog) = attempt
        /\ fetchPc = "backoff" => Len(fetchLog) = attempt + 1 /\ attempt < retries.n
        /\ \A i \in 1..(Len(fetchLog) - 1) : fetchLog[i] \in Failures
        /\ fetchPc = "returned" <=> (fetchLog # <<>> /\ fetchLog[Len(fetchLog)] = "ok")
        /\ fetchPc = "returned" => fetchOutcome = Response(Len(fetchLog) - 1)
        /\ fetchPc = "thrown" =>
               /\ Len(fetchLog) = retries.n + 1
               /\ fetchLog[Len(fetchLog)] \in Failures
               /\ fetchOutcome = ThrownError(retries.n, fetchLog[Len(fetchLog)])
        /\ ~FetchDone => fetchOutcome = PendingOutcome

\* C25: fetchWithRetry with an integer retries >= 0 makes at most retries + 1
\* attempts, one at a time, returns the response of the first attempt with an
\* OK status and makes no attempt after it, retries a failed attempt (a
\* non-OK status counts as one), throws the error of the last attempt after
\* retries + 1 failures, and every call terminates.
C25_BoundedRetriesTerminate ==
    /\ []AttemptsBounded
    /\ <>(IntegerRetries => FetchDone)

\* The third attempt returned its response after a non-OK status and a
\* timeout.
C25_Witness ==
    /\ retries = Whole(2) /\ fetchPc = "returned"
    /\ fetchLog = <<"status", "abort", "ok">>
    /\ fetchOutcome = Response(2)

\* C26: whatever number retries is, fetchWithRetry returns a response with OK
\* status or throws: it never completes normally without a response.
C26_ResponseOrThrow ==
    /\ fetchPc = "returned" => fetchOutcome.kind = "response"
    /\ fetchPc = "thrown" => fetchOutcome.kind = "error"

\* C27 as stated: the timer of an attempt is cancelled when the attempt ends,
\* on success and on failure alike: a timer is armed only while its attempt
\* is in flight, none once fetchWithRetry has returned or thrown.
C27_TimerClearedWhenAttemptEnds ==
    /\ fetchPc # "fetching" => timers = {}
    /\ FetchDone => timers = {}

\* C27 as amended: each attempt has its own controller and timer; the timer
\* is cancelled before the next attempt begins and before fetchWithRetry
\* returns or throws, but after a failed attempt that is retried it stays
\* armed during the back-off delay; at most the timer of the current attempt
\* is armed, none once the call has returned or thrown, a controller is
\* aborted only by its own timer, and an attempt begins with its own timer
\* armed and its controller not aborted.
C27_TimerClearedBeforeNextAttempt ==
    /\ [](/\ timers \subseteq {attempt}
          /\ timers \cap aborted = {}
          /\ fetchPc \in {"idle", "returned", "thrown"} => timers = {}
          /\ fetchPc = "fetching" => attempt \in timers \cup aborted
          /\ \A i \in 1..Len(fetchLog) : fetchLog[i] = "abort" => (i - 1) \in aborted)
    /\ [][/\ aborted' # aborted =>
                 \E k \in timers : aborted' = aborted \cup {k} /\ timers' = timers \ {k}
          /\ (fetchPc' = "fetching" /\ attempt' # attempt) =>
                 timers' = {attempt'} /\ attempt' \notin aborted']_vars

\* The timer of the first attempt fired and the second attempt is under way
\* with its own timer armed.
C27_Witness ==
    /\ fetchPc = "fetching" /\ attempt = 1
    /\ aborted = {0} /\ timers = {1}

=============================================================================
